---- MODULE Spec2Model ----
(***************************************************************************)
(* Model of the distributed unique-ID generator (package idgen):           *)
(* IDGenX.GenId, generateSnowflakeID, the Redis segment allocator          *)
(* (getUniqueIDFromRedisSegment / preloadNextSegment), GenIDWithDigits     *)
(* and the node-slot registry (initFlake / allocateNodeIDFromRedis).       *)
(*                                                                         *)
(* Time is counted in milliseconds since startTime (2023-01-01 UTC), so    *)
(* timeGen() - startTime is the variable now.  64-bit quantities that do   *)
(* not fit a 32-bit integer are kept as decimal digit strings.             *)
(***************************************************************************)
EXTENDS Integers, Sequences, FiniteSets, TLC

\* ------------------------------------------------------------------ bounds
MaxNow == 30
MaxGenCalls == 2
MaxMs == 24
MaxCalls == 3
MaxBack == 4
MaxExtra == 1
\* GenInviteCode calls made in a run
MaxInvites == 2
\* the clock reading at initFlake, which sets lastTimestamp
NowInit == 21

\* --------------------------------------------------------- program constants
nodeIDBits == 10
sequenceBits == 12
clockBackwardWaitMs == 5
segmentSize == 1000
minAllowedDigits == 8
maxAllowedDigits == 16
defaultDigits == 10

\* sonyflake's layout (BitLenSequence, BitLenMachineID) and its 10 ms time unit
sfBitLenSequence == 8
sfBitLenMachineID == 16
sfTimeUnitMs == 10
\* GenId shifts the Redis sequence left by this many bits before the xor
redisSeqShift == 10

NoVal == -1

\* ------------------------------------------------------------ bit arithmetic
RECURSIVE Pow2(_)
Pow2(k) == IF k = 0 THEN 1 ELSE 2 * Pow2(k - 1)

Shl(a, k) == a * Pow2(k)

RECURSIVE BitXor(_, _)
BitXor(a, b) ==
    IF a = 0 THEN b
    ELSE IF b = 0 THEN a
    ELSE (((a % 2) + (b % 2)) % 2) + 2 * BitXor(a \div 2, b \div 2)

RECURSIVE BitOr(_, _)
BitOr(a, b) ==
    IF a = 0 THEN b
    ELSE IF b = 0 THEN a
    ELSE (IF a % 2 = 1 \/ b % 2 = 1 THEN 1 ELSE 0) + 2 * BitOr(a \div 2, b \div 2)

RECURSIVE BitAnd(_, _)
BitAnd(a, b) ==
    IF a = 0 \/ b = 0 THEN 0
    ELSE (IF a % 2 = 1 /\ b % 2 = 1 THEN 1 ELSE 0) + 2 * BitAnd(a \div 2, b \div 2)

Max2(a, b) == IF a >= b THEN a ELSE b

\* ------------------------------------------------- decimal strings and int64
\* An int64 too wide for 32 bits is held as its decimal string: a sequence of
\* digits, most significant first.

\* fmt.Sprintf("%d", n) for n >= 0
RECURSIVE Sprintf(_)
Sprintf(n) == IF n < 10 THEN <<n>> ELSE Append(Sprintf(n \div 10), n % 10)

\* strconv.ParseInt / ParseUint of a digit string: leading zeros carry no value
RECURSIVE ParseInt(_)
ParseInt(s) == IF Len(s) > 1 /\ s[1] = 0 THEN ParseInt(Tail(s)) ELSE s

\* strings.Repeat("0", k)
Zeros(k) == [i \in 1..k |-> 0]

\* s with zeros in front, k digits wide
PadTo(s, k) == Zeros(k - Len(s)) \o s

DLess(a, b) ==
    \/ Len(a) < Len(b)
    \/ /\ Len(a) = Len(b)
       /\ \E i \in 1..Len(a) : a[i] < b[i] /\ \A j \in 1..(i - 1) : a[j] = b[j]

\* digit-wise a + b and a - b (a >= b) over strings of equal width w, from the right
RECURSIVE AddDigits(_, _, _, _)
AddDigits(a, b, i, carry) ==
    IF i = 0 THEN (IF carry = 0 THEN <<>> ELSE <<carry>>)
    ELSE LET t == a[i] + b[i] + carry
         IN  Append(AddDigits(a, b, i - 1, t \div 10), t % 10)

RECURSIVE SubDigits(_, _, _, _)
SubDigits(a, b, i, borrow) ==
    IF i = 0 THEN <<>>
    ELSE LET t == a[i] - b[i] - borrow
         IN  Append(SubDigits(a, b, i - 1, IF t < 0 THEN 1 ELSE 0), IF t < 0 THEN t + 10 ELSE t)

DAdd(a, b) ==
    LET w == Max2(Len(a), Len(b))
    IN  ParseInt(AddDigits(PadTo(a, w), PadTo(b, w), w, 0))

DSub(a, b) ==
    LET w == Max2(Len(a), Len(b))
    IN  ParseInt(SubDigits(PadTo(a, w), PadTo(b, w), w, 0))

\* a * 10
DMul10(a) == IF a = <<0>> THEN a ELSE Append(a, 0)

\* a % b (b > 0), by subtraction
RECURSIVE DMod(_, _)
DMod(a, b) == IF DLess(a, b) THEN a ELSE DMod(DSub(a, b), b)

\* a * k for a small k, digit by digit from the right
RECURSIVE MulDigits(_, _, _, _)
MulDigits(a, k, i, carry) ==
    IF i = 0 THEN (IF carry = 0 THEN <<>> ELSE Sprintf(carry))
    ELSE LET t == a[i] * k + carry
         IN  Append(MulDigits(a, k, i - 1, t \div 10), t % 10)

DMul(a, k) == ParseInt(MulDigits(a, k, Len(a), 0) \o <<>>)

\* long division of a by a small m: <<quotient, remainder>>
RECURSIVE DivDigits(_, _, _, _, _)
DivDigits(a, m, i, q, r) ==
    IF i > Len(a) THEN <<ParseInt(q), r>>
    ELSE LET t == r * 10 + a[i]
         IN  DivDigits(a, m, i + 1, Append(q, t \div m), t % m)

DDiv(a, m) == DivDigits(a, m, 1, <<0>>, 0)[1]

DRem(a, m) == DivDigits(a, m, 1, <<0>>, 0)[2]

\* 2^32, 2^63 and 2^64
Two32 == <<4, 2, 9, 4, 9, 6, 7, 2, 9, 6>>

Two63 == <<9, 2, 2, 3, 3, 7, 2, 0, 3, 6, 8, 5, 4, 7, 7, 5, 8, 0, 8>>

Two64 == DMul(Two63, 2)

\* An int64 is held as the unsigned value of its 64 bits, a uint32 as its value.
\* a + b and a * k in w bits
WrapAdd(a, b, modulus) == DMod(DAdd(a, b), modulus)

WrapMul(a, k, modulus) == DMod(DMul(a, k), modulus)

\* int64 % m as Go computes it: the sign of the dividend
GoRem64(a, m) ==
    IF DLess(a, Two63) THEN DRem(a, m) ELSE 0 - DRem(DSub(Two64, a), m)

\* a ^ b for a 16-bit b: only the low 16 bits of a change
Xor16(a, b) ==
    LET low == DRem(a, 65536)
    IN  DAdd(DSub(a, Sprintf(low)), Sprintf(BitXor(low, b)))

\* ------------------------------------------------------------- invite codes
inviteCodeChars ==
    <<"1", "2", "3", "4", "5", "6", "7", "8", "9", "0", "A", "B", "C", "D", "E", "F", "G", "H",
      "I", "J", "K", "L", "M", "N", "P", "Q", "R", "S", "T", "U", "V", "W", "X", "Y", "Z">>

inviteCodeLength == 8

\* inviteCodeLength of utils/uniqueid
uniqueidCodeLength == 6

\* part1 .. part4: the four 16-bit parts of userID, lowest first
UserParts(userID) ==
    LET q1 == DDiv(userID, 65536)
        q2 == DDiv(q1, 65536)
        q3 == DDiv(q2, 65536)
    IN  <<DRem(userID, 65536), DRem(q1, 65536), DRem(q2, 65536), DRem(q3, 65536)>>

\* inviteCodeChars[index]; an index outside the string panics
CharAt(index) == IF index \in 0..(Len(inviteCodeChars) - 1) THEN inviteCodeChars[index + 1] ELSE "panic"

\* the loop of the Redis path from position i on: the characters written, with
\* "panic" where the index leaves the string
RECURSIVE RedisCodeLoop(_, _, _)
RedisCodeLoop(i, mixedSeq, part2) ==
    IF i >= inviteCodeLength THEN <<>>
    ELSE LET charIndex == GoRem64(WrapAdd(mixedSeq, Sprintf(i * 79), Two64), Len(inviteCodeChars))
         IN  IF CharAt(charIndex) = "panic" THEN <<"panic">>
             ELSE <<CharAt(charIndex)>> \o
                  RedisCodeLoop(i + 1, WrapAdd(WrapMul(mixedSeq, 31, Two64), Sprintf(part2), Two64), part2)

RedisInviteCode(userID, inviteCodeSeq) ==
    LET part == UserParts(userID)
    IN  RedisCodeLoop(0, Xor16(inviteCodeSeq, BitXor(part[1], part[3])), part[2])

\* the local loop from position i on; rands are the r.Intn(len(inviteCodeChars))
\* results of positions 3 and up
RECURSIVE LocalCodeLoop(_, _, _, _, _)
LocalCodeLoop(i, length, mixValue, add, rands) ==
    IF i >= length THEN <<>>
    ELSE IF i < 3
    THEN LET index == DRem(WrapAdd(mixValue, Sprintf(i * 7919), Two32), Len(inviteCodeChars))
         IN  <<CharAt(index)>> \o
             LocalCodeLoop(i + 1, length, WrapAdd(WrapMul(mixValue, 31, Two32), Sprintf(add), Two32),
                           add, rands)
    ELSE <<CharAt(rands[i - 2])>> \o LocalCodeLoop(i + 1, length, mixValue, add, rands)

\* mixValue := (part1 ^ part2 ^ part3 ^ part4) | uint32(r.Intn(10000))
LocalInviteCode(userID, length, r0, rands) ==
    LET part == UserParts(userID)
        mixValue == BitOr(BitXor(BitXor(part[1], part[2]), BitXor(part[3], part[4])), r0)
    IN  LocalCodeLoop(0, length, Sprintf(mixValue), part[1] + part[3], rands)

\* strings.ToUpper on one character
ToUpper(c) ==
    LET lower == <<"a", "b", "c", "d", "e", "f", "g", "h", "i", "j", "k", "l", "m",
                   "n", "o", "p", "q", "r", "s", "t", "u", "v", "w", "x", "y", "z">>
        upper == <<"A", "B", "C", "D", "E", "F", "G", "H", "I", "J", "K", "L", "M",
                   "N", "O", "P", "Q", "R", "S", "T", "U", "V", "W", "X", "Y", "Z">>
    IN  IF \E k \in 1..26 : lower[k] = c
        THEN upper[CHOOSE k \in 1..26 : lower[k] = c]
        ELSE c

\* the format check shared by both packages, for a code length
VerifyCode(code, length) ==
    /\ code # <<>>
    /\ Len(code) = length
    /\ \A k \in 1..Len(code) : \E j \in 1..Len(inviteCodeChars) : inviteCodeChars[j] = ToUpper(code[k])

VerifyInviteCode(code) == VerifyCode(code, inviteCodeLength)

UniqueidVerifyInviteCode(code) == VerifyCode(code, uniqueidCodeLength)

\* the processes of the fleet; each runs one IDGenX over the shared Redis
Procs == {1, 2}

VARIABLES
    now,        \* wall clock, ms since startTime
    rdbSnowSeq, \* Redis counter idgen:uniqueid:snowflake:seq
    flake,      \* per process: the sonyflake instance (elapsedTime, sequence, machineID)
    gpc,        \* per process: position of its GenId call
    gseq,       \* per process: the INCR result held by the call in flight (NoVal: Redis failed)
    gprev,      \* per process: value returned by the GenId call before the last
    glast,      \* per process: value returned by the last GenId call
    gcalls,     \* per process: GenId calls started
    gwatch,     \* one returned GenId value picked for comparison with later ones
    gdup,       \* a later GenId call returned the watched value again
    rdbSeg,     \* Redis segment counters idgen:uniqueid:digit:<d>:<d>, one per digit width
    serverSegments,       \* per process: map key -> active IDSegment
    pendingSegments,      \* per process: map key -> pre-fetched IDSegment
    segmentLoadingStatus, \* per process: map key -> bool
    gor,        \* per process: its preloadNextSegment goroutines
    lastTimestamp,        \* per process
    sequence,             \* per process
    nodeID,               \* per process
    digitCounters,        \* per process: digit width -> counter
    digitLocks,           \* per process: digit width -> thread holding the lock, 0 if free
    clockBackwardLock,    \* per process: thread holding the lock, 0 if free
    pc,         \* per thread: position in its call
    loc,        \* per thread: the locals of its call
    ret,        \* per thread: what its last call returned
    calls,      \* per thread: calls started
    hist,       \* per process: snowflake history (last id, clock regressions since)
    watch,      \* one returned digit-shaped value picked for comparison with later ones
    dup,        \* later returns of the watched value: in its process, from a segment
    rdbNode,    \* Redis: the slots s whose key idgen:uniqueid:node:<s> exists
    nodeFile,   \* per process: the content of its host's nodeIDPersistFile (NoVal: no file)
    once,       \* per process: flakeOnce (done, the goroutine inside Do, runs of its function)
    ipc,        \* per thread: position in ensureInit
    cancelled,  \* per process: globalCtx has been cancelled
    rtask,      \* per process: position of the startNodeIDRefreshTask goroutine
    inst,       \* per process: alive or not, how nodeID was set, its refresh goroutine
    invite,     \* Redis counter idgen:uniqueid:invitecode:seq and the last GenInviteCode call
    raws,       \* the raw integers base + cursor handed out by the segment path
    asked,      \* per thread: the bounds of its last GenSnowIDWithLength call
    probe       \* the host a getMachineID call runs on, and what the call returned

nodeVars == <<rdbNode, nodeFile, inst>>

lifeVars == <<once, ipc, cancelled, rtask>>

genVars == <<rdbSnowSeq, flake, gpc, gseq, gprev, glast, gcalls, gwatch, gdup>>

segVars == <<rdbSeg, serverSegments, pendingSegments, segmentLoadingStatus, gor>>

snowVars == <<lastTimestamp, sequence, nodeID, digitCounters, digitLocks, clockBackwardLock, hist>>

callVars == <<pc, loc, ret, calls, watch, dup>>

outVars == <<invite, raws, asked, probe>>

vars == <<now, nodeVars, lifeVars, genVars, segVars, snowVars, callVars, outVars>>

\* ------------------------------------------------------------------- GenId
\* values the Redis counter may hold when the processes start (the key outlives them)
RedisSeqInit == {0, 62}

\* machine ids sonyflake is constructed with: getMachineID() % 1024, distinct per process
MachineIDs == {5, 1023}

sfCurrent == now \div sfTimeUnitMs

\* sonyflake NextID: the state after the call, the time slept included
SonyflakeNext(f) ==
    IF f.elapsedTime < sfCurrent
    THEN [f EXCEPT !.elapsedTime = sfCurrent, !.sequence = 0]
    ELSE LET s == (f.sequence + 1) % Pow2(sfBitLenSequence)
         IN  [f EXCEPT !.sequence = s,
                       !.elapsedTime = IF s = 0 THEN f.elapsedTime + 1 ELSE f.elapsedTime]

SonyflakeToID(f) ==
    BitOr(BitOr(Shl(f.elapsedTime, sfBitLenSequence + sfBitLenMachineID),
                Shl(f.sequence, sfBitLenMachineID)),
          f.machineID)

\* finalID := int64(id) ^ (seq << 10), or the plain id when Redis failed
MixRedisSeq(id, seq) ==
    IF seq = NoVal THEN id ELSE BitXor(id, Shl(seq, redisSeqShift))

GenInit ==
    /\ rdbSnowSeq \in RedisSeqInit
    /\ flake \in { f \in [Procs -> [elapsedTime : {0}, sequence : {Pow2(sfBitLenSequence) - 1},
                                   machineID : MachineIDs]] :
                     \A p, q \in Procs : p # q => f[p].machineID # f[q].machineID }
    /\ gpc = [p \in Procs |-> "idle"]
    /\ gseq = [p \in Procs |-> NoVal]
    /\ gprev = [p \in Procs |-> NoVal]
    /\ glast = [p \in Procs |-> NoVal]
    /\ gcalls = [p \in Procs |-> 0]
    /\ gwatch = NoVal
    /\ gdup = FALSE

\* GenId up to getRedisSequence("snowflake"): INCR succeeds or fails
GenIdGetRedisSequence(p) ==
    /\ gpc[p] = "idle"
    /\ gcalls[p] < MaxGenCalls
    /\ gcalls' = [gcalls EXCEPT ![p] = @ + 1]
    /\ gpc' = [gpc EXCEPT ![p] = "nextID"]
    /\ \/ /\ rdbSnowSeq' = rdbSnowSeq + 1
          /\ gseq' = [gseq EXCEPT ![p] = rdbSnowSeq + 1]
       \/ /\ gseq' = [gseq EXCEPT ![p] = NoVal]
          /\ UNCHANGED rdbSnowSeq
    /\ UNCHANGED <<nodeVars, lifeVars, now, flake, gprev, glast, gwatch, gdup, segVars, snowVars, callVars,
                   outVars>>

\* GenId from flake.NextID() to its return
GenIdNextID(p) ==
    /\ gpc[p] = "nextID"
    /\ LET f == SonyflakeNext(flake[p])
           finalID == MixRedisSeq(SonyflakeToID(f), gseq[p])
       IN  /\ flake' = [flake EXCEPT ![p] = f]
           /\ now' = Max2(now, f.elapsedTime * sfTimeUnitMs)
           /\ gprev' = [gprev EXCEPT ![p] = glast[p]]
           /\ glast' = [glast EXCEPT ![p] = finalID]
           /\ gdup' = (gdup \/ gwatch = finalID)
           /\ gwatch' \in (IF gwatch = NoVal THEN {NoVal, finalID} ELSE {gwatch})
    /\ gpc' = [gpc EXCEPT ![p] = "idle"]
    /\ gseq' = [gseq EXCEPT ![p] = NoVal]
    /\ UNCHANGED <<nodeVars, lifeVars, rdbSnowSeq, gcalls, segVars, snowVars, callVars, outVars>>

\* the clock advances by one sonyflake time unit
TickUnit ==
    /\ now + sfTimeUnitMs <= MaxNow
    /\ now' = now + sfTimeUnitMs
    /\ UNCHANGED <<nodeVars, lifeVars, genVars, outVars, segVars, snowVars, callVars>>


\* ------------------------------------------------- threads, keys, segments
\* caller threads: 1 and 2 run in process 1, thread 3 in process 2
Threads == {1, 2, 3}

ThreadProc(t) == IF t = 3 THEN 2 ELSE 1

\* the digit widths GenIDWithDigits serves; the segment key of width d is
\* idgen:uniqueid:digit:<d>:<d>
Keys == minAllowedDigits..maxAllowedDigits

\* goroutine slots of a process for preloadNextSegment
GorIds == {1, 2}

NoGor == [pc |-> "none", d |-> 0, nextVal |-> 0]

\* m with key k set to v / with key k deleted (Go map assignment and delete)
MapSet(m, k, v) == [x \in (DOMAIN m) \cup {k} |-> IF x = k THEN v ELSE m[x]]

MapDel(m, k) == [x \in (DOMAIN m) \ {k} |-> m[x]]

EmptyMap == [x \in {} |-> 0]

\* minValue: 1 multiplied by 10, digits-1 times
RECURSIVE MinValueLoop(_, _, _)
MinValueLoop(i, digits, v) ==
    IF i < digits THEN MinValueLoop(i + 1, digits, DMul10(v)) ELSE v

\* the loop run once too often
MinValueOneMore(digits) == MinValueLoop(0, digits, <<1>>)

MinValue(digits) == MinValueLoop(1, digits, <<1>>)

MaxValue(digits) == DSub(DMul10(MinValue(digits)), <<1>>)

\* consecutive segments one integer short of disjoint
SegmentStartOverlap(nextVal) == (nextVal - 1) * (segmentSize - 1) + 1

\* segmentStart := (nextVal-1)*segmentSize + 1
SegmentStart(nextVal) == (nextVal - 1) * segmentSize + 1

\* a segment created with its first integer taken
NewSegmentTaken(nextVal) == [current |-> 1, max |-> segmentSize, base |-> SegmentStart(nextVal)]

\* &IDSegment{current: 0, max: segmentSize, base: segmentStart}
NewSegment(nextVal) == [current |-> 0, max |-> segmentSize, base |-> SegmentStart(nextVal)]

\* the cursor left where it is
NextCursorStuck(current) == current

\* segment.current++
NextCursor(current) == current + 1

\* preloadThreshold := int64(float64(segment.max) * (1 - segmentPreloadThreshold))
PreloadThreshold(max) == (max * 9) \div 10

\* the segment path's finalID from baseID: reduced into the digit range, then
\* rendered, cut or zero-padded to the width, and parsed back
SegmentFinalID(baseID, digits) ==
    LET minValue == MinValue(digits)
        maxValue == MaxValue(digits)
        finalID == DAdd(DMod(Sprintf(baseID), DAdd(DSub(maxValue, minValue), <<1>>)), minValue)
    IN  IF Len(finalID) > digits
        THEN ParseInt(SubSeq(finalID, Len(finalID) - digits + 1, Len(finalID)))
        ELSE IF Len(finalID) < digits
        THEN ParseInt(Zeros(digits - Len(finalID)) \o finalID)
        ELSE finalID

\* the random pads of the local path: padLen digits, each r.Intn(10)
PadChoices(padLen) == IF padLen <= 0 THEN {<<>>} ELSE [1..padLen -> 0..9]

\* finalID = (baseValue % (maxValue - minValue)) + minValue, baseValue being the
\* snowflake id without its sign bit
LocalReduce(snowflakeID, digits) ==
    DAdd(DMod(Sprintf(snowflakeID), DSub(MaxValue(digits), MinValue(digits))), MinValue(digits))

\* the local path's finalID from the snowflake id: reduced, then cut or padded
\* to the width, and raised by minValue if below it
LocalFinalID(snowflakeID, digits, pad) ==
    LET minValue == MinValue(digits)
        finalID == LocalReduce(snowflakeID, digits)
        padStr == IF pad = Zeros(Len(pad)) /\ Len(pad) > 0 THEN <<1>> \o Tail(pad) ELSE pad
        shaped == IF Len(finalID) > digits
                  THEN ParseInt(SubSeq(finalID, Len(finalID) - digits + 1, Len(finalID)))
                  ELSE IF Len(finalID) < digits
                  THEN ParseInt(padStr \o finalID)
                  ELSE finalID
    IN  IF DLess(shaped, minValue) THEN DAdd(shaped, minValue) ELSE shaped

\* digits < minAllowedDigits || digits > maxAllowedDigits: use defaultDigits
ClampDigits(n) == IF n < minAllowedDigits \/ n > maxAllowedDigits THEN defaultDigits ELSE n

\* the segment path's error handed to the caller of GenIDWithDigits
OnSegmentErrorReturn == "return"

\* GenIDWithDigits on an error of the segment path: log it and go on to the local path
OnSegmentError == "fallback"

\* the node field shifted one bit short, into the sequence field
ComposeIDShort(timestamp, node, seq) ==
    BitOr(BitOr(Shl(timestamp, nodeIDBits + sequenceBits), Shl(node, sequenceBits - 1)), seq)

\* id := ((timestamp - startTime) << 22) | (nodeID << 12) | seq
ComposeID(timestamp, node, seq) ==
    BitOr(BitOr(Shl(timestamp, nodeIDBits + sequenceBits), Shl(node, sequenceBits)), seq)

sequenceMask == Pow2(sequenceBits) - 1

NoRet == [path |-> "none", err |-> FALSE, redisErr |-> FALSE, val |-> <<>>, n |-> 0, digits |-> 0,
          snow |-> NoVal, prev |-> NoVal, backIdle |-> FALSE, backCall |-> FALSE,
          clockBehind |-> FALSE, wrapped |-> FALSE, lockedIncr |-> FALSE]

NoLoc == [n |-> 0, digits |-> 0, timestamp |-> 0, lastTs |-> 0, seq |-> 0, sleepLeft |-> 0,
          wrapped |-> FALSE]

\* the thread's last call was not a GenSnowIDWithLength call
NoAsk == [minDigits |-> 0, maxDigits |-> 0, called |-> FALSE]

NoWatch == [p |-> 0, d |-> 0, val |-> <<>>, path |-> "none"]

\* no value is picked in the runs that do not compare returned values
WatchOff == [p |-> 0, d |-> 0, val |-> <<>>, path |-> "off"]

\* the bookkeeping of a returned value r of width d in process p
Returned(p, d, val, path) ==
    /\ dup' = [inProc |-> dup.inProc \/ (watch.p = p /\ watch.d = d /\ watch.val = val),
               inSeg  |-> dup.inSeg \/ (watch.d = d /\ watch.val = val
                                         /\ watch.path = "segment" /\ path = "segment"),
               afterSeg |-> dup.afterSeg \/ (watch.p = p /\ watch.d = d /\ watch.val = val
                                               /\ watch.path = "segment" /\ path = "local")]
    /\ watch' \in (IF watch = NoWatch
                   THEN {NoWatch, [p |-> p, d |-> d, val |-> val, path |-> path]}
                   ELSE {watch})

\* ---------------------------------------------- getUniqueIDFromRedisSegment
FreeGor(p) == { g \in GorIds : gor[p][g].pc = "none" }

\* go x.preloadNextSegment(idType, digits): the lowest free slot takes it
Spawn(p, d) ==
    LET g == CHOOSE g \in FreeGor(p) : \A h \in FreeGor(p) : g <= h
    IN  [gor EXCEPT ![p][g] = [pc |-> "start", d |-> d, nextVal |-> 0]]

\* the used-up segment removed from the map when its refill fails
OnRefillErrorDrop(segs, d) == MapDel(segs, d)

\* if err != nil { counterMutex.Unlock(); return 0, ... }: the map is as it was
OnRefillError(segs, d) == segs

\* A call by thread t with requested width n: entry "Next" is a direct
\* getUniqueIDFromRedisSegment call, entry "GenIDWithDigits" the facade, which
\* goes on to the local path when the segment path fails.  The segment path
\* from counterMutex.Lock() to Unlock() is one step; incrOK is the outcome of
\* the INCR it may issue.
CallSegmentBody(t, n, entry, limit, incrOK) ==
    LET p == ThreadProc(t)
        d == ClampDigits(n)
        segs == serverSegments[p]
        ok == d \in DOMAIN segs
        exhausted == ~ok \/ segs[d].current >= segs[d].max
        hasPending == d \in DOMAIN pendingSegments[p]
        fetch == exhausted /\ ~hasPending
        segment == IF ~exhausted THEN segs[d]
                   ELSE IF hasPending THEN pendingSegments[p][d]
                   ELSE NewSegment(rdbSeg[d] + 1)
        loading == d \in DOMAIN segmentLoadingStatus[p] /\ segmentLoadingStatus[p][d]
        preload == ~exhausted /\ segs[d].current >= PreloadThreshold(segs[d].max) /\ ~loading
        localOffset == segment.current
        baseID == segment.base + localOffset
        finalID == SegmentFinalID(baseID, d)
    IN  /\ pc[t] = "idle"
        /\ calls[t] < limit
        /\ calls' = [calls EXCEPT ![t] = @ + 1]
        /\ IF fetch THEN TRUE ELSE incrOK
        /\ IF preload THEN FreeGor(p) # {} ELSE TRUE
        /\ IF fetch /\ ~incrOK
           THEN /\ serverSegments' = [serverSegments EXCEPT ![p] = OnRefillError(segs, d)]
                /\ UNCHANGED <<rdbSeg, pendingSegments, segmentLoadingStatus, gor, watch, dup, raws>>
                /\ IF entry = "GenIDWithDigits" /\ OnSegmentError = "fallback"
                   THEN /\ pc' = [pc EXCEPT ![t] = "lockDigit"]
                        /\ loc' = [loc EXCEPT ![t] = [NoLoc EXCEPT !.n = n, !.digits = d]]
                        /\ UNCHANGED ret
                   ELSE /\ ret' = [ret EXCEPT ![t] = [NoRet EXCEPT !.path = "segment", !.err = TRUE,
                                                                  !.redisErr = TRUE,
                                                                  !.n = n, !.digits = d,
                                                                  !.lockedIncr = TRUE]]
                        /\ UNCHANGED <<pc, loc>>
           ELSE /\ rdbSeg' = IF fetch THEN [rdbSeg EXCEPT ![d] = @ + 1] ELSE rdbSeg
                /\ serverSegments' = [serverSegments EXCEPT ![p] =
                       MapSet(segs, d, [segment EXCEPT !.current = NextCursor(segment.current)])]
                /\ pendingSegments' = IF exhausted /\ hasPending
                                      THEN [pendingSegments EXCEPT ![p] = MapDel(@, d)]
                                      ELSE pendingSegments
                /\ gor' = IF preload THEN Spawn(p, d) ELSE gor
                /\ ret' = [ret EXCEPT ![t] = [NoRet EXCEPT !.path = "segment", !.val = finalID,
                                                               !.n = n, !.digits = d,
                                                               !.lockedIncr = fetch]]
                /\ Returned(p, d, finalID, "segment")
                /\ raws' = IF raws.on
                           THEN [raws EXCEPT !.seen = @ \cup {<<d, baseID>>},
                                             !.dup = @ \/ (<<d, baseID>> \in raws.seen)]
                           ELSE raws
                /\ UNCHANGED <<pc, loc, segmentLoadingStatus>>
        /\ UNCHANGED <<now, nodeVars, lifeVars, genVars, snowVars, invite, probe>>

\* a call that does not come from GenSnowIDWithLength
CallSegment(t, n, entry, limit, incrOK) ==
    /\ CallSegmentBody(t, n, entry, limit, incrOK)
    /\ asked' = [asked EXCEPT ![t] = NoAsk]

\* ------------------------------------------------------- preloadNextSegment
\* the flag never read as set
IsLoadingNever(p, d) == FALSE

\* loading, exists := segmentLoadingStatus[segmentKey]; exists && loading
IsLoading(p, d) == d \in DOMAIN segmentLoadingStatus[p] /\ segmentLoadingStatus[p][d]

\* the check-and-mark of segmentLoadingStatus under segmentLoadingLock
PreloadMark(p, g) ==
    LET d == gor[p][g].d
        loading == IsLoading(p, d)
    IN  /\ gor[p][g].pc = "start"
        /\ IF loading
           THEN /\ gor' = [gor EXCEPT ![p][g] = NoGor]
                /\ UNCHANGED segmentLoadingStatus
           ELSE /\ gor' = [gor EXCEPT ![p][g].pc = "incr"]
                /\ segmentLoadingStatus' = [segmentLoadingStatus EXCEPT ![p] = MapSet(@, d, TRUE)]
        /\ UNCHANGED <<now, nodeVars, lifeVars, genVars, outVars, rdbSeg, serverSegments, pendingSegments, snowVars, callVars>>

\* x.rdb.Incr under the 5 s timeout: it succeeds, or fails and the goroutine
\* goes to its deferred clearing of the flag
PreloadIncr(p, g) ==
    LET d == gor[p][g].d
    IN  /\ gor[p][g].pc = "incr"
        /\ \/ /\ ~cancelled[p]
              /\ rdbSeg' = [rdbSeg EXCEPT ![d] = @ + 1]
              /\ gor' = [gor EXCEPT ![p][g].pc = "install", ![p][g].nextVal = rdbSeg[d] + 1]
           \/ /\ gor' = [gor EXCEPT ![p][g].pc = "clear"]
              /\ UNCHANGED rdbSeg
        /\ UNCHANGED <<now, nodeVars, lifeVars, genVars, outVars, serverSegments, pendingSegments, segmentLoadingStatus,
                       snowVars, callVars>>

\* the new segment is stored under counterMutex: as the active segment when
\* there is none or it is used up, as the pending segment otherwise
PreloadInstall(p, g) ==
    LET d == gor[p][g].d
        newSegment == NewSegment(gor[p][g].nextVal)
        segs == serverSegments[p]
    IN  /\ gor[p][g].pc = "install"
        /\ IF d \in DOMAIN segs /\ segs[d].current < segs[d].max
           THEN /\ pendingSegments' = [pendingSegments EXCEPT ![p] = MapSet(@, d, newSegment)]
                /\ UNCHANGED serverSegments
           ELSE /\ serverSegments' = [serverSegments EXCEPT ![p] = MapSet(@, d, newSegment)]
                /\ UNCHANGED pendingSegments
        /\ gor' = [gor EXCEPT ![p][g].pc = "clear"]
        /\ UNCHANGED <<now, nodeVars, lifeVars, genVars, outVars, rdbSeg, segmentLoadingStatus, snowVars, callVars>>

\* the flag left set by the deferred function
LoadingAfterDeferLeft == TRUE

\* defer: segmentLoadingStatus[segmentKey] = false
LoadingAfterDefer == FALSE

\* the deferred function, run on every return after the mark
PreloadClear(p, g) ==
    /\ gor[p][g].pc = "clear"
    /\ segmentLoadingStatus' = [segmentLoadingStatus EXCEPT ![p] =
                                    MapSet(@, gor[p][g].d, LoadingAfterDefer)]
    /\ gor' = [gor EXCEPT ![p][g] = NoGor]
    /\ UNCHANGED <<now, nodeVars, lifeVars, genVars, outVars, rdbSeg, serverSegments, pendingSegments, snowVars, callVars>>

\* ----------------------------- GenIDWithDigits, local path; generateSnowflakeID
SnowPcs == {"loadLast", "clockBackward", "sleeping", "compare", "addSeq",
            "tilNextLoad", "tilNextSpin", "resetSeq", "storeLast"}

\* lock.Lock() on the width's lock, then generateSnowflakeID's timestamp = timeGen()
LockAndTimeGen(t) ==
    LET p == ThreadProc(t)
        d == loc[t].digits
    IN  /\ pc[t] = "lockDigit"
        /\ digitLocks[p][d] = 0
        /\ digitLocks' = [digitLocks EXCEPT ![p][d] = t]
        /\ loc' = [loc EXCEPT ![t].timestamp = now]
        /\ pc' = [pc EXCEPT ![t] = "loadLast"]
        /\ UNCHANGED <<now, nodeVars, lifeVars, genVars, outVars, segVars, lastTimestamp, sequence, nodeID, digitCounters,
                       clockBackwardLock, hist, ret, calls, watch, dup>>

\* atomic.LoadInt64(&lastTimestamp), the argument of handleClockBackward
LoadLast(t) ==
    /\ pc[t] = "loadLast"
    /\ loc' = [loc EXCEPT ![t].lastTs = lastTimestamp[ThreadProc(t)]]
    /\ pc' = [pc EXCEPT ![t] = "clockBackward"]
    /\ UNCHANGED <<now, nodeVars, lifeVars, genVars, outVars, segVars, snowVars, ret, calls, watch, dup>>

\* handleClockBackward up to its sleep: with currentTs < lastTs it keeps
\* clockBackwardLock and sleeps lastTs-currentTs+clockBackwardWaitMs ms
HandleClockBackward(t) ==
    LET p == ThreadProc(t)
    IN  /\ pc[t] = "clockBackward"
        /\ clockBackwardLock[p] = 0
        /\ IF loc[t].timestamp < loc[t].lastTs
           THEN /\ clockBackwardLock' = [clockBackwardLock EXCEPT ![p] = t]
                /\ loc' = [loc EXCEPT ![t].sleepLeft =
                               loc[t].lastTs - loc[t].timestamp + clockBackwardWaitMs]
                /\ pc' = [pc EXCEPT ![t] = "sleeping"]
           ELSE /\ pc' = [pc EXCEPT ![t] = "compare"]
                /\ UNCHANGED <<clockBackwardLock, loc>>
        /\ UNCHANGED <<now, nodeVars, lifeVars, genVars, outVars, segVars, lastTimestamp, sequence, nodeID, digitCounters,
                       digitLocks, hist, ret, calls, watch, dup>>

\* the sleep is over: return timeGen(), releasing clockBackwardLock
WakeClockBackward(t) ==
    LET p == ThreadProc(t)
    IN  /\ pc[t] = "sleeping"
        /\ loc[t].sleepLeft = 0
        /\ loc' = [loc EXCEPT ![t].timestamp = now]
        /\ clockBackwardLock' = [clockBackwardLock EXCEPT ![p] = 0]
        /\ pc' = [pc EXCEPT ![t] = "compare"]
        /\ UNCHANGED <<now, nodeVars, lifeVars, genVars, outVars, segVars, lastTimestamp, sequence, nodeID, digitCounters,
                       digitLocks, hist, ret, calls, watch, dup>>

\* if timestamp == atomic.LoadInt64(&lastTimestamp)
CompareLast(t) ==
    /\ pc[t] = "compare"
    /\ pc' = [pc EXCEPT ![t] = IF loc[t].timestamp = lastTimestamp[ThreadProc(t)]
                                THEN "addSeq" ELSE "resetSeq"]
    /\ UNCHANGED <<now, nodeVars, lifeVars, genVars, outVars, segVars, snowVars, loc, ret, calls, watch, dup>>

\* seq = atomic.AddInt64(&sequence, 1) & sequenceMask
AddSeq(t) ==
    LET p == ThreadProc(t)
        seq == BitAnd(sequence[p] + 1, sequenceMask)
    IN  /\ pc[t] = "addSeq"
        /\ sequence' = [sequence EXCEPT ![p] = @ + 1]
        /\ loc' = [loc EXCEPT ![t].seq = seq]
        /\ pc' = [pc EXCEPT ![t] = IF seq = 0 THEN "tilNextLoad" ELSE "storeLast"]
        /\ UNCHANGED <<now, nodeVars, lifeVars, genVars, outVars, segVars, lastTimestamp, nodeID, digitCounters, digitLocks,
                       clockBackwardLock, hist, ret, calls, watch, dup>>

\* atomic.LoadInt64(&lastTimestamp), the argument of tilNextMillis
TilNextLoad(t) ==
    /\ pc[t] = "tilNextLoad"
    /\ loc' = [loc EXCEPT ![t].lastTs = lastTimestamp[ThreadProc(t)]]
    /\ pc' = [pc EXCEPT ![t] = "tilNextSpin"]
    /\ UNCHANGED <<now, nodeVars, lifeVars, genVars, outVars, segVars, snowVars, ret, calls, watch, dup>>

\* tilNextMillis loops while timestamp >= lastTimestamp with the order reversed
TilNextDoneSameMs(timestamp, last) == timestamp >= last

\* tilNextMillis loops while timestamp <= lastTimestamp
TilNextDone(timestamp, last) == timestamp > last

\* tilNextMillis leaves its loop with the first timeGen() past lastTimestamp
TilNextMillis(t) ==
    /\ pc[t] = "tilNextSpin"
    /\ TilNextDone(now, loc[t].lastTs)
    /\ loc' = [loc EXCEPT ![t].timestamp = now, ![t].wrapped = TRUE]
    /\ pc' = [pc EXCEPT ![t] = "storeLast"]
    /\ UNCHANGED <<now, nodeVars, lifeVars, genVars, outVars, segVars, snowVars, ret, calls, watch, dup>>

\* atomic.StoreInt64(&sequence, 0); seq = 0
ResetSeq(t) ==
    /\ pc[t] = "resetSeq"
    /\ sequence' = [sequence EXCEPT ![ThreadProc(t)] = 0]
    /\ loc' = [loc EXCEPT ![t].seq = 0]
    /\ pc' = [pc EXCEPT ![t] = "storeLast"]
    /\ UNCHANGED <<now, nodeVars, lifeVars, genVars, outVars, segVars, lastTimestamp, nodeID, digitCounters, digitLocks,
                   clockBackwardLock, hist, ret, calls, watch, dup>>

\* atomic.StoreInt64(&lastTimestamp, timestamp) and the composed id; then the
\* rest of GenIDWithDigits: the width's counter, finalID, the deferred Unlock
StoreLastAndFinish(t) ==
    LET p == ThreadProc(t)
        d == loc[t].digits
        snowflakeID == ComposeID(loc[t].timestamp, nodeID[p], loc[t].seq)
    IN  /\ pc[t] = "storeLast"
        /\ lastTimestamp' = [lastTimestamp EXCEPT ![p] = loc[t].timestamp]
        /\ digitCounters' = [digitCounters EXCEPT ![p][d] = @ + 1]
        /\ digitLocks' = [digitLocks EXCEPT ![p][d] = 0]
        /\ \E pad \in PadChoices(d - Len(LocalReduce(snowflakeID, d))) :
             LET val == LocalFinalID(snowflakeID, d, pad)
             IN  /\ ret' = [ret EXCEPT ![t] =
                       [path |-> "local", err |-> FALSE, redisErr |-> TRUE, val |-> val, n |-> loc[t].n, digits |-> d,
                        snow |-> snowflakeID, prev |-> hist[p].snow,
                        backIdle |-> hist[p].backIdle, backCall |-> hist[p].backCall,
                        clockBehind |-> loc[t].timestamp < lastTimestamp[p],
                        wrapped |-> loc[t].wrapped]]
                 /\ Returned(p, d, val, "local")
        /\ hist' = [hist EXCEPT ![p] = [snow |-> snowflakeID, backIdle |-> FALSE,
                                        backCall |-> FALSE]]
        /\ pc' = [pc EXCEPT ![t] = "idle"]
        /\ loc' = [loc EXCEPT ![t] = NoLoc]
        /\ UNCHANGED <<now, nodeVars, lifeVars, genVars, outVars, segVars, sequence, nodeID, clockBackwardLock, calls>>

\* --------------------------------------------------------------- the clock
\* a millisecond passes
Tick(maxNow) ==
    /\ now < maxNow
    /\ now' = now + 1
    /\ loc' = [t \in Threads |-> IF loc[t].sleepLeft > 0
                                 THEN [loc[t] EXCEPT !.sleepLeft = @ - 1] ELSE loc[t]]
    /\ UNCHANGED <<nodeVars, lifeVars, genVars, outVars, segVars, snowVars, pc, ret, calls, watch, dup>>

\* the wall clock is set back by back ms (an NTP correction), no further than
\* MaxBack ms before the initial reading
ClockBack(back) ==
    /\ now - back >= NowInit - MaxBack
    /\ now' = now - back
    /\ hist' = [p \in Procs |->
                  IF \E t \in Threads : ThreadProc(t) = p /\ pc[t] \in SnowPcs
                  THEN [hist[p] EXCEPT !.backCall = TRUE]
                  ELSE [hist[p] EXCEPT !.backIdle = TRUE]]
    /\ UNCHANGED <<nodeVars, lifeVars, genVars, outVars, segVars, lastTimestamp, sequence, nodeID, digitCounters, digitLocks,
                   clockBackwardLock, callVars>>

\* ------------------------------------------------------------ getMachineID
\* fnv32(s) % 1024: the low ten bits of h after each round depend on the low
\* ten bits before it only, so the hash is carried modulo 1024, from
\* 2166136261 % 1024 and with 16777619 % 1024 as the multiplier
fnvOffsetLow == 453

fnvPrimeLow == 403

RECURSIVE fnv32Loop(_, _, _)
fnv32Loop(s, i, h) ==
    IF i > Len(s) THEN h
    ELSE fnv32Loop(s, i + 1, (BitXor(h, s[i]) * fnvPrimeLow) % 1024)

fnv32(s) == fnv32Loop(s, 1, fnvOffsetLow)

RECURSIVE sum(_)
sum(data) == IF data = <<>> THEN 0 ELSE Head(data) + sum(Tail(data))

\* the hosts: what is found of Kubernetes (nothing, metadata, only a
\* hostname, not even that), of Docker (nothing, a container id, an empty one,
\* an unreadable cgroup file), and the answer of net.Interfaces
ProbeK8s == {"no", "meta", "bare", "hostErr"}

ProbeDocker == {"no", "id", "empty", "err"}

ProbeIfaces ==
    LET lo == [HardwareAddr |-> <<>>, loopback |-> TRUE]
        lomac == [HardwareAddr |-> <<0, 0, 0, 0, 0, 1>>, loopback |-> TRUE]
        tun == [HardwareAddr |-> <<>>, loopback |-> FALSE]
        eth == [HardwareAddr |-> <<255, 255, 255, 255, 255, 254>>, loopback |-> FALSE]
        eth1 == [HardwareAddr |-> <<2, 66, 172, 17, 0, 2>>, loopback |-> FALSE]
    IN  {<<>>, <<lo>>, <<lomac, tun>>, <<lo, eth>>, <<tun, eth1, eth>>}

ProbeEnvs == [k8s : ProbeK8s, docker : ProbeDocker, netErr : BOOLEAN, ifaces : ProbeIfaces]

\* "pod-ns", "host1" and the container id "ab12"
ProbeMeta == <<112, 111, 100, 45, 110, 115>>

ProbeHost == <<104, 111, 115, 116, 49>>

ProbeContainer == <<97, 98, 49, 50>>

getMachineIDFromK8s(e) ==
    IF e.k8s = "hostErr" THEN [id |-> 0, err |-> TRUE]
    ELSE [id |-> fnv32(IF e.k8s = "meta" THEN ProbeMeta ELSE ProbeHost) % 1024, err |-> FALSE]

getContainerID(e) ==
    IF e.docker = "id" THEN [id |-> ProbeContainer, err |-> FALSE]
    ELSE IF e.docker = "empty" THEN [id |-> <<>>, err |-> FALSE]
    ELSE [id |-> <<>>, err |-> TRUE]

\* the first interface with a hardware address that is not a loopback
getMachineIDFromMac(e) ==
    LET ok == { i \in 1..Len(e.ifaces) :
                  Len(e.ifaces[i].HardwareAddr) > 0 /\ ~e.ifaces[i].loopback }
        first == CHOOSE i \in ok : \A j \in ok : i <= j
    IN  IF e.netErr \/ ok = {} THEN [id |-> 0, err |-> TRUE]
        ELSE [id |-> sum(e.ifaces[first].HardwareAddr) % 1024, err |-> FALSE]

getMachineID(e) ==
    LET k8sID == getMachineIDFromK8s(e)
        containerID == getContainerID(e)
    IN  IF e.k8s # "no" /\ ~k8sID.err THEN k8sID
        ELSE IF e.docker # "no" /\ ~containerID.err /\ containerID.id # <<>>
        THEN [id |-> sum(containerID.id) % 1024, err |-> FALSE]
        ELSE getMachineIDFromMac(e)

\* no call made, on a host with nothing but a loopback
NoProbe == [env |-> [k8s |-> "no", docker |-> "no", netErr |-> FALSE, ifaces |-> <<>>],
            called |-> FALSE, id |-> 0, err |-> FALSE]

\* GetMachineID(), once on the host
GetMachineID ==
    /\ ~probe.called
    /\ probe' = [probe EXCEPT !.called = TRUE,
                              !.id = getMachineID(probe.env).id,
                              !.err = getMachineID(probe.env).err]
    /\ UNCHANGED <<now, nodeVars, lifeVars, genVars, segVars, snowVars, callVars, invite, raws, asked>>

\* ----------------------------------------------------------- initial states
NoInvite == [pkg |-> "none", user |-> <<0>>, path |-> "none", err |-> FALSE, panic |-> FALSE,
             code |-> <<>>]

\* no invite code asked for, no raw integer recorded
OutQuiet ==
    /\ invite = [rdb |-> <<0>>, calls |-> 0, last |-> NoInvite]
    /\ raws = [on |-> FALSE, seen |-> {}, dup |-> FALSE]
    /\ probe = NoProbe
    /\ asked = [t \in Threads |-> NoAsk]

LifeQuiet ==
    /\ once = [p \in Procs |-> [done |-> TRUE, m |-> 0, runs |-> 1]]
    /\ ipc = [t \in Threads |-> "ready"]
    /\ cancelled = [p \in Procs |-> FALSE]
    /\ rtask = [p \in Procs |-> "none"]

GenQuiet ==
    /\ rdbSnowSeq = 0
    /\ flake = [p \in Procs |-> [elapsedTime |-> 0, sequence |-> Pow2(sfBitLenSequence) - 1,
                                 machineID |-> IF p = 1 THEN 5 ELSE 1023]]
    /\ gpc = [p \in Procs |-> "idle"]
    /\ gseq = [p \in Procs |-> NoVal]
    /\ gprev = [p \in Procs |-> NoVal]
    /\ glast = [p \in Procs |-> NoVal]
    /\ gcalls = [p \in Procs |-> 0]
    /\ gwatch = NoVal
    /\ gdup = FALSE

CallsInit(w) ==
    /\ pc = [t \in Threads |-> "idle"]
    /\ loc = [t \in Threads |-> NoLoc]
    /\ ret = [t \in Threads |-> NoRet]
    /\ calls = [t \in Threads |-> 0]
    /\ watch = w
    /\ dup = [inProc |-> FALSE, inSeg |-> FALSE, afterSeg |-> FALSE]

CallsQuiet == CallsInit(WatchOff)

\* initFlake has run: lastTimestamp is its time, the node slots differ, and
\* seq0 ids have been generated in process 1 within this millisecond
SnowInit(seq0) ==
    /\ lastTimestamp = [p \in Procs |-> NowInit]
    /\ sequence = [p \in Procs |-> IF p = 1 THEN seq0 ELSE 0]
    /\ nodeID = [p \in Procs |-> IF p = 1 THEN 5 ELSE 7]
    /\ rdbNode = {5, 7}
    /\ nodeFile = [p \in Procs |-> IF p = 1 THEN 5 ELSE 7]
    /\ inst = [p \in Procs |-> [state |-> "up", src |-> "redis", task |-> "periodic"]]
    /\ digitCounters = [p \in Procs |-> [d \in Keys |-> 0]]
    /\ digitLocks = [p \in Procs |-> [d \in Keys |-> 0]]
    /\ clockBackwardLock = [p \in Procs |-> 0]
    /\ hist = [p \in Procs |-> [snow |-> NoVal, backIdle |-> FALSE, backCall |-> FALSE]]

\* no segment anywhere; counter n0 for width d0, 0 for the others
SegFresh(d0, n0) ==
    /\ rdbSeg = [d \in Keys |-> IF d = d0 THEN n0 ELSE 0]
    /\ serverSegments = [p \in Procs |-> EmptyMap]
    /\ pendingSegments = [p \in Procs |-> EmptyMap]
    /\ segmentLoadingStatus = [p \in Procs |-> EmptyMap]
    /\ gor = [p \in Procs |-> [g \in GorIds |-> NoGor]]

\* process 1 has taken cur values of segment 1 of width d0, whose counter is at n0
SegUsed(d0, n0, cur) ==
    /\ rdbSeg = [d \in Keys |-> IF d = d0 THEN n0 ELSE 0]
    /\ serverSegments = [p \in Procs |-> IF p = 1
                           THEN MapSet(EmptyMap, d0, [NewSegment(1) EXCEPT !.current = cur])
                           ELSE EmptyMap]
    /\ pendingSegments = [p \in Procs |-> EmptyMap]
    /\ segmentLoadingStatus = [p \in Procs |-> EmptyMap]
    /\ gor = [p \in Procs |-> [g \in GorIds |-> NoGor]]

\* ------------------------------------------- GenIDWithDigits, one caller
\* the widths asked for: below, inside and above [minAllowedDigits, maxAllowedDigits]
DigitInputs == {7, 8, 10, 16, 17}

BackSteps == {2}

InitDigits ==
    /\ LifeQuiet
    /\ OutQuiet
    /\ GenQuiet
    /\ CallsQuiet
    /\ now = NowInit
    /\ \E seq0 \in {0, sequenceMask - 2} : SnowInit(seq0)
    /\ \/ SegFresh(defaultDigits, 0)
       \/ SegUsed(defaultDigits, 1, PreloadThreshold(segmentSize) - 1)

LocalSteps(t) ==
    \/ LockAndTimeGen(t)
    \/ LoadLast(t)
    \/ HandleClockBackward(t)
    \/ CompareLast(t)
    \/ AddSeq(t)
    \/ TilNextLoad(t)
    \/ TilNextMillis(t)
    \/ ResetSeq(t)
    \/ StoreLastAndFinish(t)

PreloadSteps(p) ==
    \E g \in GorIds :
        \/ PreloadMark(p, g)
        \/ PreloadIncr(p, g)
        \/ PreloadInstall(p, g)
        \/ PreloadClear(p, g)

NextDigits ==
    \/ \E n \in DigitInputs, incrOK \in BOOLEAN :
           CallSegment(1, n, "GenIDWithDigits", MaxCalls, incrOK)
    \/ LocalSteps(1)
    \/ PreloadSteps(1)
    \/ Tick(MaxMs)

SpecDigits == InitDigits /\ [][NextDigits]_vars

\* ------------------------------------------------------ GenSnowIDWithLength
\* minDigits taken as given
EffectiveMinRaw(minDigits) == minDigits

\* if minDigits < minAllowedDigits || minDigits > maxAllowedDigits { minDigits = minAllowedDigits }
EffectiveMin(minDigits) ==
    IF minDigits < minAllowedDigits \/ minDigits > maxAllowedDigits THEN minAllowedDigits ELSE minDigits

\* if maxDigits < minDigits || maxDigits > maxAllowedDigits { maxDigits = maxAllowedDigits }
EffectiveMax(minDigits, maxDigits) ==
    IF maxDigits < minDigits \/ maxDigits > maxAllowedDigits THEN maxAllowedDigits ELSE maxDigits

\* the <<minDigits, maxDigits>> pairs asked for, and the r.Intn results tried
LengthInputs == {<<8, 8>>, <<5, 9>>, <<20, 25>>, <<10, 5>>, <<16, 16>>}

LengthRands == {0, 8}

\* GenSnowIDWithLength(minDigits, maxDigits) by thread t; r is the result of
\* r.Intn(maxDigits-minDigits+1), which panics on an argument below 1
GenSnowIDWithLength(t, minDigits, maxDigits, r, incrOK) ==
    LET lo == EffectiveMin(minDigits)
        hi == EffectiveMax(lo, maxDigits)
        digits == IF lo # hi THEN lo + r ELSE lo
    IN  /\ r \in 0..(hi - lo)
        /\ asked' = [asked EXCEPT ![t] = [minDigits |-> minDigits, maxDigits |-> maxDigits,
                                          called |-> TRUE]]
        /\ CallSegmentBody(t, digits, "GenIDWithDigits", MaxCalls, incrOK)

NextLength ==
    \/ \E in \in LengthInputs, r \in LengthRands, incrOK \in BOOLEAN :
           GenSnowIDWithLength(1, in[1], in[2], r, incrOK)
    \/ LocalSteps(1)
    \/ PreloadSteps(1)
    \/ Tick(NowInit + 1)

InitLength ==
    /\ LifeQuiet
    /\ OutQuiet
    /\ GenQuiet
    /\ CallsQuiet
    /\ now = NowInit
    /\ SnowInit(sequenceMask - 2)
    /\ SegUsed(minAllowedDigits, 1, PreloadThreshold(segmentSize) - 1)

SpecLength == InitLength /\ [][NextLength]_vars

SegQuiet == SegFresh(defaultDigits, 0)

SnowQuiet == SnowInit(0)

\* ------------------------------- generateSnowflakeID, one caller, Redis down
\* Every INCR fails, so each GenIDWithDigits call takes the local path; the
\* clock ticks and is set back.
SnowWidth == 8

InitSnow ==
    /\ LifeQuiet
    /\ OutQuiet
    /\ GenQuiet
    /\ CallsQuiet
    /\ now = NowInit
    /\ \E seq0 \in {0, sequenceMask - 2} : SnowInit(seq0)
    /\ SegQuiet

NextSnow ==
    \/ CallSegment(1, SnowWidth, "GenIDWithDigits", MaxCalls, FALSE)
    \/ LocalSteps(1)
    \/ WakeClockBackward(1)
    \/ Tick(MaxMs)
    \/ \E back \in BackSteps : ClockBack(back)

SpecSnow == InitSnow /\ [][NextSnow]_vars

\* ------------------------ GenIDWithDigits, two goroutines of one process
\* Goroutine 1 asks for width 8 and goroutine 2 for width 9; every INCR fails,
\* so both run generateSnowflakeID, each under its own width's lock.
RaceWidth(t) == IF t = 1 THEN 8 ELSE 9

InitRace ==
    /\ LifeQuiet
    /\ OutQuiet
    /\ GenQuiet
    /\ CallsInit(NoWatch)
    /\ now = NowInit
    /\ \E seq0 \in {0, sequenceMask - 2} : SnowInit(seq0)
    /\ SegQuiet

NextRace ==
    \/ \E t \in {1, 2} : CallSegment(t, RaceWidth(t), "GenIDWithDigits", MaxCalls, FALSE)
    \/ \E t \in {1, 2} : LocalSteps(t)
    \/ Tick(NowInit + 1)

SpecRace == InitRace /\ [][NextRace]_vars

\* --------------------- getUniqueIDFromRedisSegment, one key, two processes
\* Thread 1 of process 1 and thread 3 of process 2 call Next for width
\* SegWidth.  The key's counter starts at 0 with no segment anywhere, or
\* process 1 holds segment 1 close to its end, or process 1 holds segment 1
\* unused while other processes have drawn RangeSegments segments in all.
SegWidth == 8

\* the segments whose values are below 9 * 10^(SegWidth - 1), the size of the digit range
RangeSegments == 90000000 \div segmentSize

InitSeg ==
    /\ LifeQuiet
    /\ OutQuiet
    /\ GenQuiet
    /\ CallsInit(NoWatch)
    /\ now = NowInit
    /\ SnowQuiet
    /\ \/ SegFresh(SegWidth, 0)
       \/ SegUsed(SegWidth, 1, segmentSize - 2)
       \/ SegUsed(SegWidth, RangeSegments, 0)

NextSeg ==
    \/ \E t \in {1, 3}, incrOK \in BOOLEAN : CallSegment(t, SegWidth, "Next", MaxCalls, incrOK)
    \/ \E p \in Procs : PreloadSteps(p)

SpecSeg == InitSeg /\ [][NextSeg]_vars

\* the same two callers, with every integer base + cursor they are handed
\* recorded
InitRaw ==
    /\ LifeQuiet
    /\ invite = [rdb |-> <<0>>, calls |-> 0, last |-> NoInvite]
    /\ asked = [t \in Threads |-> NoAsk]
    /\ raws = [on |-> TRUE, seen |-> {}, dup |-> FALSE]
    /\ probe = NoProbe
    /\ GenQuiet
    /\ CallsInit(WatchOff)
    /\ now = NowInit
    /\ SnowQuiet
    /\ \/ SegFresh(SegWidth, 0)
       \/ SegUsed(SegWidth, 1, segmentSize - 2)

NextRaw ==
    \/ \E t \in Threads, incrOK \in BOOLEAN : CallSegment(t, SegWidth, "Next", MaxCalls - 1, incrOK)
    \/ \E p \in Procs : PreloadSteps(p)

SpecRaw == InitRaw /\ [][NextRaw]_vars

\* --------------- getUniqueIDFromRedisSegment, one process, a whole segment
\* Thread 1 calls Next for width SegWidth from a fresh start, through segment 1
\* and MaxExtra calls beyond it; the INCRs of the calls succeed, those of the
\* pre-fetch goroutines succeed or fail.
InitNext1 ==
    /\ LifeQuiet
    /\ OutQuiet
    /\ GenQuiet
    /\ CallsQuiet
    /\ now = NowInit
    /\ SnowQuiet
    /\ SegFresh(SegWidth, 0)

NextNext1 ==
    \/ CallSegment(1, SegWidth, "Next", segmentSize + MaxExtra, TRUE)
    \/ PreloadSteps(1)

SpecNext1 == InitNext1 /\ [][NextNext1]_vars

InitGenId == LifeQuiet /\ OutQuiet /\ GenInit /\ SegQuiet /\ SnowQuiet /\ CallsQuiet /\ now = sfTimeUnitMs

NextGenId ==
    \/ \E p \in Procs : GenIdGetRedisSequence(p)
    \/ \E p \in Procs : GenIdNextID(p)
    \/ TickUnit

SpecGenId == InitGenId /\ [][NextGenId]_vars

\* ----------------------------------------------------- the node registry
\* nodeIDMask = -1 ^ (-1 << nodeIDBits)
nodeIDMask == Pow2(nodeIDBits) - 1

\* what getMachineID returns in the processes that start
NodePrefs == {0, 5}

\* the client handed to NewIDGenX: working, failing every command, or nil
RdbModes == {"ok", "down", "nil"}

Down == [state |-> "down", src |-> "none", task |-> "none"]

\* allocateNodeIDFromRedis against the keys that exist: SETNX on the preferred
\* slot, then on 0..1023 in order; NoVal is its error
AllocateNodeID(preferredID, keys) ==
    IF preferredID \notin keys THEN preferredID
    ELSE IF \E i \in 0..nodeIDMask : i \notin keys
    THEN CHOOSE i \in 0..nodeIDMask : i \notin keys /\ \A j \in 0..(i - 1) : j \in keys
    ELSE NoVal

\* initFlake in a process that starts: the slot saved in the file is taken
\* back when its key EXISTS (or without asking when there is no client), else
\* a slot is reserved by SETNX and saved, else machineID & nodeIDMask is used
InitFlakeBody(p, machineID, rdb) ==
    LET savedNodeID == nodeFile[p]
        allocatedNodeID == AllocateNodeID(machineID, rdbNode)
    IN  /\ inst[p].state = "down"
        /\ IF savedNodeID > 0 /\ rdb = "ok" /\ savedNodeID \in rdbNode
           THEN /\ nodeID' = [nodeID EXCEPT ![p] = savedNodeID]
                /\ inst' = [inst EXCEPT ![p] = [state |-> "up", src |-> "file", task |-> "once"]]
                /\ UNCHANGED <<rdbNode, nodeFile>>
           ELSE IF savedNodeID > 0 /\ rdb = "nil"
           THEN /\ nodeID' = [nodeID EXCEPT ![p] = savedNodeID]
                /\ inst' = [inst EXCEPT ![p] = [state |-> "up", src |-> "unchecked", task |-> "none"]]
                /\ UNCHANGED <<rdbNode, nodeFile>>
           ELSE IF rdb = "ok" /\ allocatedNodeID # NoVal
           THEN /\ nodeID' = [nodeID EXCEPT ![p] = allocatedNodeID]
                /\ rdbNode' = rdbNode \cup {allocatedNodeID}
                /\ nodeFile' = [nodeFile EXCEPT ![p] = allocatedNodeID]
                /\ inst' = [inst EXCEPT ![p] = [state |-> "up", src |-> "setnx", task |-> "periodic"]]
           ELSE /\ nodeID' = [nodeID EXCEPT ![p] = BitAnd(machineID, nodeIDMask)]
                /\ inst' = [inst EXCEPT ![p] = [state |-> "up", src |-> "local", task |-> "none"]]
                /\ UNCHANGED <<rdbNode, nodeFile>>
        /\ lastTimestamp' = [lastTimestamp EXCEPT ![p] = now]
        /\ UNCHANGED <<now, genVars, outVars, segVars, sequence, digitCounters, digitLocks,
                       clockBackwardLock, hist, callVars>>

\* initFlake with the gate left aside: a process that starts
InitFlake(p, machineID, rdb) == InitFlakeBody(p, machineID, rdb) /\ UNCHANGED lifeVars

\* refreshNodeIDExpiry(nodeID), run once after a restored slot and daily by
\* startNodeIDRefreshTask: EXPIRE on the slot's key, and only when EXPIRE
\* returns an error a SETNX of the key
RefreshNodeIDExpiry(p, expireErr, setOK) ==
    /\ inst[p].state = "up"
    /\ inst[p].task # "none"
    /\ rdbNode' = IF expireErr /\ setOK THEN rdbNode \cup {nodeID[p]} ELSE rdbNode
    /\ inst' = [inst EXCEPT ![p].task = IF @ = "once" THEN "none" ELSE @]
    /\ UNCHANGED <<now, nodeFile, lifeVars, genVars, outVars, segVars, snowVars, callVars>>

\* the nodeIDExpiryDays of a slot's key run out: no live process has a refresh
\* of the key ahead of it
NodeKeyExpires(s) ==
    /\ s \in rdbNode
    /\ \A p \in Procs : ~(inst[p].state = "up" /\ inst[p].task # "none" /\ nodeID[p] = s)
    /\ rdbNode' = rdbNode \ {s}
    /\ UNCHANGED <<now, nodeFile, inst, lifeVars, genVars, outVars, segVars, snowVars, callVars>>

\* Shutdown, or the end of the process: the file and the key stay
Shutdown(p) ==
    /\ inst[p].state = "up"
    /\ inst' = [inst EXCEPT ![p] = Down]
    /\ UNCHANGED <<now, rdbNode, nodeFile, lifeVars, genVars, outVars, segVars, snowVars, callVars>>

\* No process runs, no key is reserved and no file is written; each process
\* has its own host and file.
InitNode ==
    /\ LifeQuiet
    /\ OutQuiet
    /\ GenQuiet
    /\ CallsQuiet
    /\ SegQuiet
    /\ now = NowInit
    /\ lastTimestamp = [p \in Procs |-> 0]
    /\ sequence = [p \in Procs |-> 0]
    /\ nodeID = [p \in Procs |-> 0]
    /\ digitCounters = [p \in Procs |-> [d \in Keys |-> 0]]
    /\ digitLocks = [p \in Procs |-> [d \in Keys |-> 0]]
    /\ clockBackwardLock = [p \in Procs |-> 0]
    /\ hist = [p \in Procs |-> [snow |-> NoVal, backIdle |-> FALSE, backCall |-> FALSE]]
    /\ rdbNode = {}
    /\ nodeFile = [p \in Procs |-> NoVal]
    /\ inst = [p \in Procs |-> Down]

NextNode ==
    \/ \E p \in Procs, machineID \in NodePrefs, rdb \in RdbModes : InitFlake(p, machineID, rdb)
    \/ \E p \in Procs, expireErr \in BOOLEAN, setOK \in BOOLEAN :
           RefreshNodeIDExpiry(p, expireErr, setOK)
    \/ \E s \in 0..nodeIDMask : NodeKeyExpires(s)
    \/ \E p \in Procs : Shutdown(p)

SpecNode == InitNode /\ [][NextNode]_vars

\* --------------------------- the node registry, the file as it is found
\* nodeIDPersistFile is read before anything is known about who wrote it:
\* a process finds no file, a slot written by an earlier run, or another
\* positive number.
FileContents == {NoVal, 5, 5000}

InitNodeFile ==
    /\ LifeQuiet
    /\ OutQuiet
    /\ GenQuiet
    /\ CallsQuiet
    /\ SegQuiet
    /\ now = NowInit
    /\ lastTimestamp = [p \in Procs |-> 0]
    /\ sequence = [p \in Procs |-> 0]
    /\ nodeID = [p \in Procs |-> 0]
    /\ digitCounters = [p \in Procs |-> [d \in Keys |-> 0]]
    /\ digitLocks = [p \in Procs |-> [d \in Keys |-> 0]]
    /\ clockBackwardLock = [p \in Procs |-> 0]
    /\ hist = [p \in Procs |-> [snow |-> NoVal, backIdle |-> FALSE, backCall |-> FALSE]]
    /\ rdbNode = {}
    /\ nodeFile \in [Procs -> FileContents]
    /\ inst = [p \in Procs |-> Down]

SpecNodeFile == InitNodeFile /\ [][NextNode]_vars

\* ------------------------------------- the id layout of generateSnowflakeID
\* The last statement of generateSnowflakeID, for timestamps, node slots and
\* sequence values taken from the ends and the middle of their ranges; each
\* process keeps the slot in nodeID and the id composed last.
ComposeTimes == {0, 1, 2, 511}

ComposeSlots == {0, 1, 2, 512, nodeIDMask}

ComposeSeqs == {0, 1, 2048, sequenceMask}

ComposeFor(p, timestamp, slot, seq) ==
    /\ nodeID' = [nodeID EXCEPT ![p] = slot]
    /\ hist' = [hist EXCEPT ![p].snow = ComposeID(timestamp, slot, seq)]
    /\ UNCHANGED <<now, nodeVars, lifeVars, genVars, outVars, segVars, lastTimestamp, sequence, digitCounters,
                   digitLocks, clockBackwardLock, callVars>>

InitCompose == LifeQuiet /\ OutQuiet /\ GenQuiet /\ CallsQuiet /\ SegQuiet /\ SnowQuiet /\ now = NowInit

NextCompose ==
    \E p \in Procs, timestamp \in ComposeTimes, slot \in ComposeSlots, seq \in ComposeSeqs :
        ComposeFor(p, timestamp, slot, seq)

SpecCompose == InitCompose /\ [][NextCompose]_vars

\* ------------------------------------------ ensureInit: flakeOnce.Do(...)
\* flakeOnce.m is free, or its holder is asked for
OnceMayEnterAlways(p) == TRUE

\* flakeOnce.m.Lock() goes through when no goroutine holds the mutex
OnceMayEnter(p) == once[p].m = 0

\* Once.Do, fast path: the atomic load of done
EnsureInitFast(t) ==
    /\ ipc[t] = "out"
    /\ ipc' = [ipc EXCEPT ![t] = IF once[ThreadProc(t)].done THEN "ready" ELSE "slow"]
    /\ UNCHANGED <<now, nodeVars, once, cancelled, rtask, genVars, outVars, segVars, snowVars, callVars>>

\* Once.doSlow: under the mutex, done is read again and the function is
\* started when it is still unset
OnceDoSlow(t) ==
    LET p == ThreadProc(t)
    IN  /\ ipc[t] = "slow"
        /\ OnceMayEnter(p)
        /\ IF once[p].done
           THEN /\ ipc' = [ipc EXCEPT ![t] = "ready"]
                /\ UNCHANGED once
           ELSE /\ ipc' = [ipc EXCEPT ![t] = "init"]
                /\ once' = [once EXCEPT ![p].m = t, ![p].runs = @ + 1]
        /\ UNCHANGED <<now, nodeVars, cancelled, rtask, genVars, outVars, segVars, snowVars, callVars>>

\* the function of flakeOnce.Do runs to its end, with the node slot set; the
\* deferred store of done and the Unlock follow, and startNodeIDRefreshTask
\* is started after a reservation
OnceRun(t, machineID, rdb) ==
    LET p == ThreadProc(t)
    IN  /\ ipc[t] = "init"
        /\ InitFlakeBody(p, machineID, rdb)
        /\ once' = [once EXCEPT ![p].done = TRUE, ![p].m = 0]
        /\ ipc' = [ipc EXCEPT ![t] = "ready"]
        /\ rtask' = [rtask EXCEPT ![p] = IF inst'[p].task = "periodic" THEN "first" ELSE @]
        /\ UNCHANGED cancelled

\* Three goroutines, two of them in one process, make their first call; no
\* process has run initFlake, no key is reserved and no file is written.
InitOnce ==
    /\ once = [p \in Procs |-> [done |-> FALSE, m |-> 0, runs |-> 0]]
    /\ ipc = [t \in Threads |-> "out"]
    /\ cancelled = [p \in Procs |-> FALSE]
    /\ rtask = [p \in Procs |-> "none"]
    /\ OutQuiet
    /\ GenQuiet
    /\ CallsQuiet
    /\ SegQuiet
    /\ now = NowInit
    /\ lastTimestamp = [p \in Procs |-> 0]
    /\ sequence = [p \in Procs |-> 0]
    /\ nodeID = [p \in Procs |-> 0]
    /\ digitCounters = [p \in Procs |-> [d \in Keys |-> 0]]
    /\ digitLocks = [p \in Procs |-> [d \in Keys |-> 0]]
    /\ clockBackwardLock = [p \in Procs |-> 0]
    /\ hist = [p \in Procs |-> [snow |-> NoVal, backIdle |-> FALSE, backCall |-> FALSE]]
    /\ rdbNode = {}
    /\ nodeFile = [p \in Procs |-> NoVal]
    /\ inst = [p \in Procs |-> Down]

NextOnce ==
    \/ \E t \in Threads : EnsureInitFast(t)
    \/ \E t \in Threads : OnceDoSlow(t)
    \/ \E t \in Threads, machineID \in NodePrefs, rdb \in RdbModes : OnceRun(t, machineID, rdb)

SpecOnce == InitOnce /\ [][NextOnce]_vars

\* ------------------------------------------------------------ GenInviteCode
\* user ids, counter values and random draws tried
InviteUsers ==
    {<<0>>, <<1>>, Sprintf(70000), <<4, 2, 9, 4, 9, 6, 7, 3, 0, 1>>, DSub(Two64, <<1>>)}

InviteSeqInit == {<<0>>, <<3, 4>>, Sprintf(999999), Sprintf(399999999), DSub(Two63, <<2>>)}

InviteR0 == {0, 9999}

InviteRands == {[k \in 1..5 |-> 0], [k \in 1..5 |-> 34], <<3, 0, 34, 17, 9>>}

\* IDGenX.GenInviteCode(userID): rdb is "ok", "down" (INCR fails) or "nil"
GenInviteCode(userID, rdb, r0, rands) ==
    LET inviteCodeSeq == DAdd(invite.rdb, <<1>>)
        redis == RedisInviteCode(userID, inviteCodeSeq)
        out == [NoInvite EXCEPT !.pkg = "idgen", !.user = userID]
        made == invite.calls + 1
    IN  /\ invite.calls < MaxInvites
        /\ invite' =
              IF userID = <<0>>
              THEN [invite EXCEPT !.calls = made, !.last = [out EXCEPT !.err = TRUE]]
              ELSE IF rdb = "ok" /\ DLess(inviteCodeSeq, Two63)
              THEN [rdb |-> inviteCodeSeq,
                    calls |-> made,
                    last |-> IF redis # <<>> /\ redis[Len(redis)] = "panic"
                             THEN [out EXCEPT !.path = "redis", !.panic = TRUE]
                             ELSE [out EXCEPT !.path = "redis", !.code = redis]]
              ELSE [invite EXCEPT !.calls = made, !.last = [out EXCEPT !.path = "local", !.code =
                                     LocalInviteCode(userID, inviteCodeLength, r0, rands)]]
        /\ UNCHANGED <<now, nodeVars, lifeVars, genVars, segVars, snowVars, callVars, raws, asked, probe>>

\* uniqueid.GenInviteCode(userID): the local loop only, six characters
UniqueidGenInviteCode(userID, r0, rands) ==
    LET out == [NoInvite EXCEPT !.pkg = "uniqueid", !.user = userID]
    IN  /\ invite.calls < MaxInvites
        /\ invite' = [invite EXCEPT !.calls = @ + 1, !.last =
              IF userID = <<0>>
              THEN [out EXCEPT !.err = TRUE]
              ELSE [out EXCEPT !.path = "local", !.code =
                        LocalInviteCode(userID, uniqueidCodeLength, r0, rands)]]
        /\ UNCHANGED <<now, nodeVars, lifeVars, genVars, segVars, snowVars, callVars, raws, asked, probe>>

InitInvite ==
    /\ LifeQuiet /\ GenQuiet /\ CallsQuiet /\ SegQuiet /\ SnowQuiet /\ now = NowInit
    /\ raws = [on |-> FALSE, seen |-> {}, dup |-> FALSE]
    /\ probe = NoProbe
    /\ asked = [t \in Threads |-> NoAsk]
    /\ \E c \in InviteSeqInit : invite = [rdb |-> c, calls |-> 0, last |-> NoInvite]

NextInvite ==
    \/ \E userID \in InviteUsers, rdb \in RdbModes, r0 \in InviteR0, rands \in InviteRands :
           GenInviteCode(userID, rdb, r0, rands)
    \/ \E userID \in InviteUsers, r0 \in InviteR0, rands \in InviteRands :
           UniqueidGenInviteCode(userID, r0, rands)

SpecInvite == InitInvite /\ [][NextInvite]_vars

\* ------------------------------ Shutdown and the background goroutines
\* the Done channel never read as closed
TaskSeesDoneNever(p) == FALSE

\* case <-refreshCtx.Done(): the child of x.ctx is cancelled with globalCtx
TaskSeesDone(p) == cancelled[p]

\* Shutdown: globalCtxCancel()
ShutdownCancel(p) ==
    /\ inst[p].state = "up"
    /\ ~cancelled[p]
    /\ cancelled' = [cancelled EXCEPT ![p] = TRUE]
    /\ UNCHANGED <<now, nodeVars, once, ipc, rtask, genVars, outVars, segVars, snowVars, callVars>>

\* a refreshNodeIDExpiry(nodeID) call of the task: EXPIRE under a context
\* derived from x.ctx, then SETNX when EXPIRE failed for another reason than
\* that context
TaskRefreshCall(p, expireErr, setOK) ==
    /\ rdbNode' = IF expireErr /\ setOK /\ ~cancelled[p] THEN rdbNode \cup {nodeID[p]} ELSE rdbNode
    /\ UNCHANGED <<now, nodeFile, inst, once, ipc, cancelled, genVars, outVars, segVars, snowVars, callVars>>

\* startNodeIDRefreshTask: the refresh made at once, before the loop
TaskFirstRefresh(p, expireErr, setOK) ==
    /\ rtask[p] = "first"
    /\ rtask' = [rtask EXCEPT ![p] = "select"]
    /\ TaskRefreshCall(p, expireErr, setOK)

\* case <-ticker.C: a day has passed
TaskTicker(p) ==
    /\ rtask[p] = "select"
    /\ rtask' = [rtask EXCEPT ![p] = "refresh"]
    /\ UNCHANGED <<now, nodeVars, once, ipc, cancelled, genVars, outVars, segVars, snowVars, callVars>>

\* the refresh of the ticker branch, under refreshNodeIDLock
TaskRefresh(p, expireErr, setOK) ==
    /\ rtask[p] = "refresh"
    /\ rtask' = [rtask EXCEPT ![p] = "select"]
    /\ TaskRefreshCall(p, expireErr, setOK)

\* case <-refreshCtx.Done(): return
TaskDone(p) ==
    /\ rtask[p] = "select"
    /\ TaskSeesDone(p)
    /\ rtask' = [rtask EXCEPT ![p] = "exited"]
    /\ UNCHANGED <<now, nodeVars, once, ipc, cancelled, genVars, outVars, segVars, snowVars, callVars>>

\* go x.refreshNodeIDExpiry(savedNodeID) after a restored slot
RefreshOnce(p, expireErr, setOK) ==
    /\ inst[p].task = "once"
    /\ RefreshNodeIDExpiry(p, expireErr /\ ~cancelled[p], setOK)

TaskSteps(p) ==
    \/ \E expireErr \in BOOLEAN, setOK \in BOOLEAN : TaskFirstRefresh(p, expireErr, setOK)
    \/ \E expireErr \in BOOLEAN, setOK \in BOOLEAN : TaskRefresh(p, expireErr, setOK)

GorSteps(p, g) ==
    \/ PreloadMark(p, g)
    \/ PreloadIncr(p, g)
    \/ PreloadInstall(p, g)
    \/ PreloadClear(p, g)

\* Process 1 is running: it has reserved its slot and started the refresh
\* task, or has restored its slot and started the one refresh; its segment
\* for width SegWidth is at the pre-fetch threshold.
InitLifeWith(keys) ==
    /\ once = [p \in Procs |-> [done |-> TRUE, m |-> 0, runs |-> 1]]
    /\ ipc = [t \in Threads |-> "ready"]
    /\ cancelled = [p \in Procs |-> FALSE]
    /\ OutQuiet
    /\ GenQuiet
    /\ CallsQuiet
    /\ now = NowInit
    /\ SegUsed(SegWidth, 1, PreloadThreshold(segmentSize))
    /\ lastTimestamp = [p \in Procs |-> NowInit]
    /\ sequence = [p \in Procs |-> 0]
    /\ nodeID = [p \in Procs |-> IF p = 1 THEN 5 ELSE 7]
    /\ digitCounters = [p \in Procs |-> [d \in Keys |-> 0]]
    /\ digitLocks = [p \in Procs |-> [d \in Keys |-> 0]]
    /\ clockBackwardLock = [p \in Procs |-> 0]
    /\ hist = [p \in Procs |-> [snow |-> NoVal, backIdle |-> FALSE, backCall |-> FALSE]]
    /\ rdbNode = keys
    /\ nodeFile = [p \in Procs |-> IF p = 1 THEN 5 ELSE 7]
    /\ \/ /\ inst = [p \in Procs |-> [state |-> "up", src |-> "setnx", task |-> "periodic"]]
          /\ rtask = [p \in Procs |-> IF p = 1 THEN "first" ELSE "select"]
       \/ /\ inst = [p \in Procs |-> [state |-> "up", src |-> "file", task |-> "once"]]
          /\ rtask = [p \in Procs |-> "none"]

InitLife == InitLifeWith({5, 7})

NextLife ==
    \/ ShutdownCancel(1)
    \/ TaskSteps(1)
    \/ TaskTicker(1)
    \/ TaskDone(1)
    \/ \E expireErr \in BOOLEAN, setOK \in BOOLEAN : RefreshOnce(1, expireErr, setOK)
    \/ \E incrOK \in BOOLEAN : CallSegment(1, SegWidth, "Next", MaxCalls, incrOK)
    \/ \E g \in GorIds : GorSteps(1, g)

\* Every goroutine that can take a step takes it in the end; the select of the
\* task, with Done closed for good and the ticker ready once a day, takes the
\* Done branch in the end.
FairLife ==
    /\ WF_vars(TaskSteps(1))
    /\ SF_vars(TaskDone(1))
    /\ WF_vars(\E expireErr \in BOOLEAN, setOK \in BOOLEAN : RefreshOnce(1, expireErr, setOK))
    /\ \A g \in GorIds : WF_vars(GorSteps(1, g))

SpecLife == InitLife /\ [][NextLife]_vars /\ FairLife

\* the same process, whose reservation key may have gone from Redis (expired
\* or evicted) before a renewal run
InitRenew == \E keys \in {{5, 7}, {7}} : InitLifeWith(keys)

SpecRenew == InitRenew /\ [][NextLife]_vars

\* --------------------- GenIDWithDigits through an outage, one caller
\* The counter of the default width has come to the segment whose integers
\* are the snowflake ids of the current millisecond: process 1 holds that
\* segment, two values short of its end or used up, and seq0 ids have been
\* generated in this millisecond.
FallbackSegment == (ComposeID(NowInit, 5, 0) \div segmentSize) + 1

FallbackSeq == (SegmentStart(FallbackSegment) + segmentSize - 2) - ComposeID(NowInit, 5, 0) - 1

SegAt(d0, n0, cur) ==
    /\ rdbSeg = [d \in Keys |-> IF d = d0 THEN n0 ELSE 0]
    /\ serverSegments = [p \in Procs |-> IF p = 1
                           THEN MapSet(EmptyMap, d0, [NewSegment(n0) EXCEPT !.current = cur])
                           ELSE EmptyMap]
    /\ pendingSegments = [p \in Procs |-> EmptyMap]
    /\ segmentLoadingStatus = [p \in Procs |-> EmptyMap]
    /\ gor = [p \in Procs |-> [g \in GorIds |-> NoGor]]

InitFallback ==
    /\ LifeQuiet
    /\ OutQuiet
    /\ GenQuiet
    /\ CallsInit(NoWatch)
    /\ now = NowInit
    /\ \E seq0 \in {FallbackSeq, sequenceMask - 2} : SnowInit(seq0)
    /\ \E cur \in {segmentSize - 2, segmentSize} : SegAt(defaultDigits, FallbackSegment, cur)

NextFallback ==
    \/ \E incrOK \in BOOLEAN : CallSegment(1, defaultDigits, "GenIDWithDigits", MaxCalls, incrOK)
    \/ LocalSteps(1)
    \/ PreloadSteps(1)
    \/ Tick(MaxMs)

SpecFallback == InitFallback /\ [][NextFallback]_vars

\* ------------------------------------------------- getMachineID on a host
InitMachine ==
    /\ LifeQuiet
    /\ GenQuiet
    /\ CallsQuiet
    /\ SegQuiet
    /\ SnowQuiet
    /\ now = NowInit
    /\ invite = [rdb |-> <<0>>, calls |-> 0, last |-> NoInvite]
    /\ raws = [on |-> FALSE, seen |-> {}, dup |-> FALSE]
    /\ asked = [t \in Threads |-> NoAsk]
    /\ \E e \in ProbeEnvs : probe = [NoProbe EXCEPT !.env = e]

SpecMachine == InitMachine /\ [][GetMachineID]_vars

\* the process of SpecLife over the days: the ticker of the task fires every
\* 24 hours, so a task waiting in its select gets its tick in the end
SpecDaily == InitLife /\ [][NextLife]_vars /\ FairLife /\ WF_vars(TaskTicker(1))

\* the two callers of SpecSeg, with every pre-fetch goroutine scheduled in
\* the end
SpecSegFair ==
    InitSeg /\ [][NextSeg]_vars /\ \A p \in Procs, g \in GorIds : WF_vars(GorSteps(p, g))

\* C1: no two GenId() calls, in one process or in different processes with
\* distinct machine ids, return the same value, whether the Redis mixing
\* sequence is available or failing.
GenIdUnique == gdup = FALSE

\* C9: in one process, a GenId() call that starts after another returned
\* yields a strictly greater value.
GenIdMonotonic == \A p \in Procs : gprev[p] # NoVal => glast[p] > gprev[p]

\* C5: every GenIDWithDigits(n) call that returns without error returns a
\* positive integer of exactly w decimal digits with a non-zero leading digit,
\* w = n for 8 <= n <= 16 and w = 10 otherwise, on the segment path and on
\* the local path.
DigitWidthExact ==
    \A t \in Threads :
        (ret[t].path # "none" /\ ~ret[t].err) =>
            /\ Len(ret[t].val) = (IF 8 <= ret[t].n /\ ret[t].n <= 16 THEN ret[t].n ELSE 10)
            /\ ret[t].val[1] # 0

\* a call with a width above the range came back over the local path
DigitWidthWitness ==
    \E t \in Threads : ret[t].path = "local" /\ ret[t].n = 17 /\ ~ret[t].err

\* C6: a GenIDWithDigits(10) call whose Redis call failed returns no error
\* and a 10-digit value, taken from the local path.
RedisFailureFallback ==
    \A t \in Threads :
        (ret[t].n = 10 /\ ret[t].redisErr) =>
            ~ret[t].err /\ ret[t].path = "local" /\ Len(ret[t].val) = 10

\* a GenIDWithDigits(10) call returned after its INCR failed
RedisFailureWitness ==
    \E t \in Threads : ret[t].n = 10 /\ ret[t].redisErr /\ ret[t].path # "none"

\* C7: when the clock was set back between two generateSnowflakeID calls, the
\* second returns a value greater than the first, and it does not return on
\* a clock reading earlier than the timestamp recorded last.
ClockRegressionSafe ==
    \A t \in Threads :
        (ret[t].path = "local" /\ ret[t].prev # NoVal /\ ret[t].backIdle) =>
            ret[t].snow > ret[t].prev /\ ~ret[t].clockBehind

\* C8: with a clock that is never set back, each generateSnowflakeID call
\* returns a value greater than the call before it, and a call whose sequence
\* increment wraps to 0 takes a later millisecond with sequence 0.
SnowflakeIncreasing ==
    \A t \in Threads :
        (ret[t].path = "local" /\ ret[t].prev # NoVal /\ ~ret[t].backIdle /\ ~ret[t].backCall) =>
            /\ ret[t].snow > ret[t].prev
            /\ ret[t].wrapped =>
                   /\ ret[t].snow % 4096 = 0
                   /\ ret[t].snow \div 4194304 > ret[t].prev \div 4194304

\* a call wrapped the sequence and waited for the next millisecond
SnowflakeWrapWitness ==
    \E t \in Threads :
        /\ ret[t].path = "local" /\ ret[t].prev # NoVal
        /\ ~ret[t].backIdle /\ ~ret[t].backCall /\ ret[t].wrapped

\* C2: within one process no two GenIDWithDigits calls for the same digit
\* width return the same value, the calls being sequential or concurrent with
\* each other and with calls for other widths, on either path.
DigitsUniqueInProcess == dup.inProc = FALSE

\* C3: for one key no two successful segment Next calls return the same
\* value, in one process or in several sharing the Redis counter, for any
\* number of segments consumed.
SegmentUniqueAlways == dup.inSeg = FALSE

\* C3, amended: no two successful segment Next calls for one key return the
\* same value as long as the key's counter has not passed RangeSegments, the
\* number of segments that fit the digit range of the width.
SegmentUniqueInRange == rdbSeg[SegWidth] <= RangeSegments => dup.inSeg = FALSE

\* both processes have been served, from different segments inside the range
SegmentUniqueWitness ==
    /\ watch.path = "segment"
    /\ rdbSeg[SegWidth] >= 2 /\ rdbSeg[SegWidth] <= RangeSegments
    /\ \E t \in Threads : /\ ret[t].path = "segment" /\ ~ret[t].err
                          /\ ThreadProc(t) # watch.p /\ ret[t].val # watch.val

\* C10: from a fresh start, once segmentSize + 1 Next calls for one key have
\* returned, exactly two INCRs have been issued on the key's counter, and the
\* last call's value is the first of a later segment.
OneIncrPerSegment ==
    calls[1] = segmentSize + 1 =>
        /\ rdbSeg[SegWidth] = 2
        /\ ret[1].val = SegmentFinalID(SegmentStart(2), SegWidth)

\* C4: no two live processes that got their node slot through the registry,
\* by a fresh SETNX or by restoring a saved slot whose key EXISTS, hold the
\* same slot.
NodeSlotExclusive ==
    \A p \in Procs, q \in Procs :
        (/\ p # q
         /\ inst[p].state = "up" /\ inst[p].src \in {"setnx", "file"}
         /\ inst[q].state = "up" /\ inst[q].src \in {"setnx", "file"}) => nodeID[p] # nodeID[q]

SlotsNeverCollide ==
    \A p \in Procs, q \in Procs :
        (hist[p].snow # NoVal /\ hist[q].snow # NoVal) =>
            /\ (hist[p].snow \div Pow2(sequenceBits)) % Pow2(nodeIDBits) = nodeID[p]
            /\ nodeID[p] # nodeID[q] => hist[p].snow # hist[q].snow

\* slot 1 with sequence 0 beside slot 0 with sequence 2048, in one millisecond
SlotsNeverCollideWitness ==
    /\ nodeID[1] = 1 /\ nodeID[2] = 0
    /\ hist[1].snow # NoVal /\ hist[1].snow % Pow2(sequenceBits) = 0
    /\ hist[2].snow # NoVal /\ hist[2].snow % Pow2(sequenceBits) = 2048
    /\ hist[1].snow \div Pow2(nodeIDBits + sequenceBits) = hist[2].snow \div Pow2(nodeIDBits + sequenceBits)

\* C13: with goroutines making their first call concurrently, the function of
\* flakeOnce runs at most once per process, and a caller is past ensureInit
\* only when that one run has ended with the node slot set.
InitExactlyOnce ==
    /\ \A p \in Procs : once[p].runs <= 1
    /\ \A t \in Threads :
           ipc[t] = "ready" =>
               /\ once[ThreadProc(t)].done /\ once[ThreadProc(t)].runs = 1
               /\ inst[ThreadProc(t)].state = "up"

\* one goroutine is inside the function while another of its process waits at
\* the mutex
InitExactlyOnceWitness ==
    \E t \in Threads, u \in Threads :
        t # u /\ ThreadProc(t) = ThreadProc(u) /\ ipc[t] = "init" /\ ipc[u] = "slow"

\* C14: after Shutdown the refresh task exits in the end and stays exited,
\* the one refresh of a restored slot ends, and every pre-fetch goroutine in
\* flight ends.
BackgroundEnds ==
    /\ \A p \in Procs : cancelled[p] ~> (rtask[p] \in {"none", "exited"})
    /\ \A p \in Procs : cancelled[p] ~> (inst[p].task # "once")
    /\ \A p \in Procs, g \in GorIds :
           (cancelled[p] /\ gor[p][g].pc # "none") ~> (gor[p][g].pc = "none")
    /\ [][\A p \in Procs : rtask[p] = "exited" => rtask'[p] = "exited"]_vars

\* the task has exited after Shutdown while a pre-fetch is still in flight
BackgroundEndsWitness ==
    /\ cancelled[1] /\ rtask[1] = "exited"
    /\ \E g \in GorIds : gor[1][g].pc = "incr"

\* C15: every GenInviteCode call with a non-zero userID returns a code that
\* VerifyInviteCode accepts, on the Redis path for every counter value and on
\* the local path; a call with userID 0 returns an error and no code.
InviteRoundTrip ==
    LET r == invite.last
    IN  r.pkg = "idgen" =>
            IF r.user = <<0>>
            THEN r.err /\ r.code = <<>>
            ELSE ~r.err /\ ~r.panic /\ VerifyInviteCode(r.code)

\* C16: the value a GenSnowIDWithLength(min, max) call returns has a number
\* of digits between min and max, each clamped to [8, 16].
SnowLengthClamped ==
    \A t \in Threads :
        LET a == asked[t]
            lo == IF a.minDigits < 8 THEN 8 ELSE IF a.minDigits > 16 THEN 16 ELSE a.minDigits
            hi == IF a.maxDigits < 8 THEN 8 ELSE IF a.maxDigits > 16 THEN 16 ELSE a.maxDigits
        IN  (a.called /\ pc[t] = "idle" /\ ret[t].path # "none" /\ ~ret[t].err) =>
                lo <= Len(ret[t].val) /\ Len(ret[t].val) <= hi

\* C16, as the code has it: a bound outside its valid range is replaced, min
\* by 8 when it is not in [8, 16], max by 16 when it is below the min in
\* effect or above 16; the number of digits lies between the two.
SnowLengthInRange ==
    \A t \in Threads :
        LET a == asked[t]
            lo == IF a.minDigits < 8 \/ a.minDigits > 16 THEN 8 ELSE a.minDigits
            hi == IF a.maxDigits < lo \/ a.maxDigits > 16 THEN 16 ELSE a.maxDigits
        IN  (a.called /\ pc[t] = "idle" /\ ret[t].path # "none" /\ ~ret[t].err) =>
                /\ lo <= Len(ret[t].val) /\ Len(ret[t].val) <= hi
                /\ ret[t].val[1] # 0

\* a GenSnowIDWithLength(20, 25) call has returned a value
SnowLengthWitness ==
    \E t \in Threads :
        /\ asked[t].called /\ asked[t].minDigits = 20
        /\ pc[t] = "idle" /\ ret[t].path # "none" /\ ~ret[t].err

\* C17: the segments held anywhere (active, pending, or carried by a
\* pre-fetch about to store it) start at (n-1)*C + 1 for pairwise different
\* INCR results n, no cursor passes C, every integer handed out lies in a
\* range already drawn from the counter, and no integer base + cursor is
\* handed out twice across the processes sharing the counter.
RawUnique ==
    LET d == SegWidth
        Holders == { <<"active", p, 0>> : p \in { q \in Procs : d \in DOMAIN serverSegments[q] } }
                   \cup { <<"pending", p, 0>> : p \in { q \in Procs : d \in DOMAIN pendingSegments[q] } }
                   \cup { <<"gor", x[1], x[2]>> :
                              x \in { y \in Procs \X GorIds : /\ gor[y[1]][y[2]].pc = "install"
                                                                /\ gor[y[1]][y[2]].d = d } }
        BaseOf(h) == IF h[1] = "active" THEN serverSegments[h[2]][d].base
                     ELSE IF h[1] = "pending" THEN pendingSegments[h[2]][d].base
                     ELSE (gor[h[2]][h[3]].nextVal - 1) * segmentSize + 1
    IN  /\ ~raws.dup
        /\ \A h1 \in Holders, h2 \in Holders : h1 # h2 => BaseOf(h1) # BaseOf(h2)
        /\ \A h \in Holders : \E n \in 1..rdbSeg[d] : BaseOf(h) = (n - 1) * segmentSize + 1
        /\ \A p \in Procs : d \in DOMAIN serverSegments[p] =>
               serverSegments[p][d].current <= serverSegments[p][d].max
        /\ \A r \in raws.seen : 1 <= r[2] /\ r[2] <= rdbSeg[r[1]] * segmentSize

\* both processes have been handed integers, from more than one segment, one
\* of them promoted from pending
RawUniqueWitness ==
    /\ \E a \in raws.seen, b \in raws.seen : a[2] <= segmentSize /\ b[2] > 2 * segmentSize
    /\ ret[1].path = "segment" /\ ret[3].path = "segment"
    /\ ~ret[1].err /\ ~ret[3].err

\* C18: a segment stored as the pending segment of a key stays pending and
\* unchanged until the active segment is used up and it becomes the active
\* one; no step replaces or drops it.
PendingKept ==
    [][\A p \in Procs, d \in Keys :
          d \in DOMAIN pendingSegments[p] =>
              IF d \in DOMAIN pendingSegments'[p]
              THEN pendingSegments'[p][d] = pendingSegments[p][d]
              ELSE /\ d \in DOMAIN serverSegments[p]
                   /\ serverSegments[p][d].current >= serverSegments[p][d].max
                   /\ serverSegments'[p][d].base = pendingSegments[p][d].base]_vars

\* C19: for each key of a process at most one pre-fetch is between marking
\* the key as loading and clearing the mark, so no second pre-fetch for the
\* key issues an INCR in between.
PrefetchSingle ==
    \A p \in Procs, d \in Keys :
        /\ Cardinality({ g \in GorIds : gor[p][g].d = d
                                         /\ gor[p][g].pc \in {"incr", "install", "clear"} }) <= 1
        /\ (\E g \in GorIds : gor[p][g].d = d /\ gor[p][g].pc \in {"incr", "install", "clear"})
               => (d \in DOMAIN segmentLoadingStatus[p] /\ segmentLoadingStatus[p][d])

\* a second pre-fetch for the key has been started while the first is about
\* to issue its INCR
PrefetchSingleWitness ==
    \E p \in Procs, g \in GorIds, h \in GorIds :
        /\ gor[p][g].pc = "incr" /\ gor[p][h].pc = "start"
        /\ gor[p][g].d = gor[p][h].d

\* C20: no call issues a Redis INCR between counterMutex.Lock() and
\* counterMutex.Unlock().
NoIncrUnderLock == \A t \in Threads : ~ret[t].lockedIncr

\* C21: a Next call whose synchronous refill INCR fails returns the error,
\* and its step leaves the counter, the active segments, the pending
\* segments and the loading flags of every key as they were; every Next
\* call that finds the active segment missing or used up and no pending
\* segment issues the refill INCR, also after a failure.
RefillErrorSurfaced ==
    [][\A t \in {1, 3} :
          LET p == ThreadProc(t)
              d == SegWidth
              exhausted == d \notin DOMAIN serverSegments[p]
                           \/ serverSegments[p][d].current >= serverSegments[p][d].max
          IN  calls'[t] # calls[t] =>
                  /\ pc'[t] = "idle"
                  /\ (exhausted /\ d \notin DOMAIN pendingSegments[p]) => ret'[t].lockedIncr
                  /\ ret'[t].redisErr =>
                         /\ ret'[t].err /\ ret'[t].val = <<>>
                         /\ UNCHANGED <<rdbSeg, serverSegments, pendingSegments,
                                        segmentLoadingStatus>>]_vars

\* a Next call has failed on its refill INCR with the used-up segment in the
\* map, after an earlier call of the thread
RefillErrorWitness ==
    \E t \in {1, 3} :
        /\ ret[t].redisErr /\ ret[t].err /\ calls[t] >= 2
        /\ SegWidth \in DOMAIN serverSegments[ThreadProc(t)]
        /\ serverSegments[ThreadProc(t)][SegWidth].current >= segmentSize

\* C22: a pre-fetch whose INCR fails goes to its deferred clearing without
\* touching the counter or any segment; the clearing leaves the segments
\* alone too; a loading flag that is set is cleared in the end; and a Next
\* call fails only when its own refill INCR failed.
PrefetchFailureHarmless ==
    /\ [][\A p \in Procs, g \in GorIds :
             /\ (gor[p][g].pc = "incr" /\ gor'[p][g].pc = "clear") =>
                    UNCHANGED <<rdbSeg, serverSegments, pendingSegments>>
             /\ (gor[p][g].pc = "clear" /\ gor'[p][g].pc = "none") =>
                    /\ UNCHANGED <<rdbSeg, serverSegments, pendingSegments>>
                    /\ ~segmentLoadingStatus'[p][gor[p][g].d]]_vars
    /\ \A p \in Procs :
           (SegWidth \in DOMAIN segmentLoadingStatus[p] /\ segmentLoadingStatus[p][SegWidth])
               ~> (SegWidth \in DOMAIN segmentLoadingStatus[p] /\ ~segmentLoadingStatus[p][SegWidth])
    /\ [](\A t \in Threads : ret[t].err => ret[t].redisErr /\ ret[t].lockedIncr)

\* after a pre-fetch of process 1 that failed and cleared its flag, a Next
\* call has refilled synchronously: the only INCR that succeeded is its own
PrefetchFailureWitness ==
    /\ SegWidth \in DOMAIN segmentLoadingStatus[1] /\ ~segmentLoadingStatus[1][SegWidth]
    /\ SegWidth \notin DOMAIN pendingSegments[1]
    /\ rdbSeg[SegWidth] = 2
    /\ ret[1].lockedIncr /\ ~ret[1].err /\ ret[1].path = "segment"
    /\ \A g \in GorIds : gor[1][g].pc = "none"

\* C23: a call starts a pre-fetch goroutine only when it finds the key's
\* active segment present, not used up, its cursor above 90% of the
\* capacity, and the loading flag not set.
PrefetchOnlyAbove90 ==
    [][\A t \in Threads :
          LET p == ThreadProc(t)
              d == ret'[t].digits
          IN  (calls'[t] # calls[t] /\ gor'[p] # gor[p]) =>
                  /\ d \in DOMAIN serverSegments[p]
                  /\ serverSegments[p][d].current < serverSegments[p][d].max
                  /\ serverSegments[p][d].current * 10 > serverSegments[p][d].max * 9
                  /\ ~(d \in DOMAIN segmentLoadingStatus[p] /\ segmentLoadingStatus[p][d])]_vars

\* C24: a renewal run (of the daily task or the one made after a restored
\* slot) that is not cancelled and finds the process's reservation key gone
\* leaves the key in Redis when it ends.
RenewalRecreatesKey ==
    [][\A p \in Procs :
          LET taskRun == rtask[p] \in {"first", "refresh"} /\ rtask'[p] = "select"
              oneRun == inst[p].task = "once" /\ inst'[p].task = "none"
          IN  ((taskRun \/ oneRun) /\ ~cancelled[p] /\ nodeID[p] \notin rdbNode) =>
                  nodeID[p] \in rdbNode']_vars

\* C25: process 1, which holds a slot reserved with SETNX or restored from
\* its file and validated with EXISTS, comes to a renewal run again and
\* again until Shutdown is called.
RenewedForever ==
    []<>(cancelled[1] \/ rtask[1] \in {"first", "refresh"} \/ inst[1].task = "once")

\* C26: a process that starts against a Redis that answers, with a slot in
\* 0..1023 in its file whose key exists, comes up on that slot, restored from
\* the file, and no SETNX adds a key.
RestoredSlotAdopted ==
    [][\A p \in Procs :
          (/\ inst[p].state = "down"
           /\ inst'[p].state = "up"
           /\ inst'[p].src \in {"file", "setnx"}
           /\ nodeFile[p] \in 0..nodeIDMask
           /\ nodeFile[p] \in rdbNode) =>
              (nodeID'[p] = nodeFile[p] /\ inst'[p].src = "file" /\ rdbNode' = rdbNode)]_vars

\* C27: a process that starts without a client, or with a client whose
\* every command fails, comes up on machineID & nodeIDMask, writes no file
\* and starts no renewal.
DegradedStartLocal ==
    [][\A p \in Procs, machineID \in NodePrefs, rdb \in {"down", "nil"} :
          InitFlake(p, machineID, rdb) =>
              /\ nodeID'[p] = BitAnd(machineID, nodeIDMask)
              /\ nodeFile' = nodeFile
              /\ inst'[p].task = "none"]_vars

\* C28: in one process and for one width, no value returned by the local
\* path of GenIDWithDigits equals a value returned earlier by the segment
\* path.
FallbackFresh == dup.afterSeg = FALSE

\* C29: a getMachineID call returns no error, whichever probes fail on the
\* host, and the value it returns lies in 0..1023.
MachineIDNeverFails == probe.called => (~probe.err /\ probe.id \in 0..1023)

\* C30: in every state each active segment has 0 <= current <= max, each
\* pending segment has current = 0, the active and the pending segment of a
\* key in a process are different segments, and the integer base + cursor a
\* successful Next call takes lies in base .. base + max - 1 of the segment
\* it is taken from, for any interleaving of calls and pre-fetches.
SegmentShape ==
    /\ [](\A p \in Procs, d \in Keys :
             /\ d \in DOMAIN serverSegments[p] =>
                    /\ 0 <= serverSegments[p][d].current
                    /\ serverSegments[p][d].current <= serverSegments[p][d].max
             /\ d \in DOMAIN pendingSegments[p] =>
                    /\ pendingSegments[p][d].current = 0
                    /\ pendingSegments[p][d].max > 0
             /\ (d \in DOMAIN serverSegments[p] /\ d \in DOMAIN pendingSegments[p]) =>
                    serverSegments[p][d].base # pendingSegments[p][d].base)
    /\ [][\A t \in Threads :
             (calls'[t] = calls[t] + 1 /\ ret'[t].path = "segment" /\ ~ret'[t].err) =>
                 LET segment == serverSegments'[ThreadProc(t)][ret'[t].digits]
                 IN  /\ raws.seen' # raws.seen
                     /\ \A r \in raws.seen' \ raws.seen :
                            /\ r[1] = ret'[t].digits
                            /\ segment.base <= r[2]
                            /\ r[2] <= segment.base + segment.max - 1
                            /\ r[2] = segment.base + segment.current - 1]_vars

\* a process holds a used-up active segment and a pending one, integers
\* having been taken
SegmentShapeWitness ==
    /\ raws.seen # {}
    /\ \E p \in Procs :
           /\ SegWidth \in DOMAIN pendingSegments[p]
           /\ SegWidth \in DOMAIN serverSegments[p]
           /\ serverSegments[p][SegWidth].current = serverSegments[p][SegWidth].max

====
